---- MODULE Spec2Model ----
(***************************************************************************)
(* EchoOS node-graph canvas (src/src/App.tsx, first EchoOS component).     *)
(* The React state of the component is the state of the machine; every     *)
(* event handler and timer callback is one action.  A handler reads the    *)
(* state of the render it was created in and its setState calls are        *)
(* batched: of several plain setX(value) calls the last one wins, and a    *)
(* functional setX(prev => ...) is applied to the pending value.  A timer  *)
(* callback keeps the values its closure captured when it was created.     *)
(***************************************************************************)
EXTENDS Integers, Sequences, FiniteSets, TLC

\* ------------------------------------------------------------------ bounds
MaxSaves == 2
MaxBranchSaves == 3
MaxNodeIds == 2
MaxGestureNodes == 2
MaxPointerEvents == 3
MaxZ == 6
MaxLoadNodes == 26
MaxLoadEdges == 3
MaxScroll == 2
MaxCalls == 3

\* --------------------------------------------------------------- constants
Null == -1
WelcomeId == 0
ImportedId == 50
FolderIdBase == 100
ExpansionIdBase == 200
ZoomUnit == 1000
ZoomMin == 100
ZoomMax == 3000
MinWidth == 200
MinHeight == 150
FolderWidth == 320
FolderHeight == 250
ExtractGap == 40
DuplicateOffset == 30
CreateOffset == 200
ZoneMargin == 10

\* ------------------------------------------------------- sequence helpers
MapSeq(s, F(_)) == [i \in 1..Len(s) |-> F(s[i])]

Min(a, b) == IF a < b THEN a ELSE b

Max(a, b) == IF a > b THEN a ELSE b

\* Array.prototype.find: index of the first element with the id, 0 if none
FindId(s, id) ==
  IF \E i \in 1..Len(s) : s[i].id = id
  THEN CHOOSE i \in 1..Len(s) : s[i].id = id /\ \A j \in 1..(i-1) : s[j].id # id
  ELSE 0

\* Array.prototype.slice(0, n)
Slice0(s, n) == SubSeq(s, 1, Min(Max(n, 0), Len(s)))

RemoveAt(s, k) == SubSeq(s, 1, k-1) \o SubSeq(s, k+1, Len(s))

Ids(s) == {s[i].id : i \in 1..Len(s)}

\* ------------------------------------------------------------- data model
Pos(x, y) == [x |-> x, y |-> y]

MkNode(id, x, y, w, h, z, type, label, content, status, children) ==
  [id |-> id, x |-> x, y |-> y, w |-> w, h |-> h, zIndex |-> z,
   type |-> type, label |-> label, content |-> content, status |-> status,
   imageUrl |-> "", children |-> children]

\* an edge record built with its endpoints swapped
MkEdgeReversed(id, from, to) == [id |-> id, from |-> to, to |-> from, validated |-> FALSE]

MkEdge(id, from, to) == [id |-> id, from |-> from, to |-> to, validated |-> FALSE]

\* { ...n, data: { ...d, status } } : the data part of n replaced by d's
WithData(n, d, status) ==
  [n EXCEPT !.type = d.type, !.label = d.label, !.content = d.content,
            !.status = status, !.imageUrl = d.imageUrl, !.children = d.children]

WelcomeNode ==
  MkNode(WelcomeId, 100, 100, 320, 240, 1, "intent", "Welcome to EchoOS",
         "Welcome to your Exocortex! Features: Create nodes (Ctrl+N) Connect ideas AI expansion Conflict detection Multi-select (Shift+Click) Export/Import Undo/Redo (Ctrl+Z/Y)", "validated", <<>>)

DefaultGraph == <<WelcomeNode>>

\* nodeTypeConfig[type].defaultSize || { width: 350, height: 400 }
DefaultSize(type) ==
  CASE type = "intent" -> [w |-> 300, h |-> 250]
    [] type = "hypothesis" -> [w |-> 350, h |-> 300]
    [] type = "decision" -> [w |-> 300, h |-> 250]
    [] type = "memory" -> [w |-> 300, h |-> 250]
    [] type = "conflict" -> [w |-> 300, h |-> 250]
    [] type = "note" -> [w |-> 280, h |-> 220]
    [] type = "image" -> [w |-> 320, h |-> 280]
    [] type = "code" -> [w |-> 400, h |-> 350]
    [] type = "voice" -> [w |-> 250, h |-> 180]
    [] OTHER -> [w |-> 350, h |-> 400]

\* type.charAt(0).toUpperCase() + type.slice(1)
Capitalize(type) ==
  CASE type = "intent" -> "Intent"
    [] type = "hypothesis" -> "Hypothesis"
    [] type = "decision" -> "Decision"
    [] type = "memory" -> "Memory"
    [] type = "conflict" -> "Conflict"
    [] type = "note" -> "Note"
    [] type = "image" -> "Image"
    [] type = "code" -> "Code"
    [] type = "voice" -> "Voice"
    [] type = "folder" -> "Folder"
    [] OTHER -> "Kernel-script"

\* ------------------------------------------------------------------ inputs
CreateTypes == {"note", "kernel-script"}
Points == {Pos(250, 250), Pos(900, 900)}
Buttons == {0, 1}
NodeParts == {"header", "content", "resizeHandle", "connectPoint", "connectButton"}
CanvasTargets == {"canvas", "grid"}
ImportFiles ==
  {[ok |-> FALSE, nonNull |-> FALSE, nodes |-> <<>>, edges |-> <<>>],
   [ok |-> TRUE, nonNull |-> FALSE, nodes |-> <<>>, edges |-> <<>>],
   [ok |-> TRUE, nonNull |-> TRUE, nodes |-> <<>>, edges |-> <<>>],
   [ok |-> TRUE, nonNull |-> TRUE,
    nodes |-> <<MkNode(ImportedId, 0, 0, 300, 250, 1, "intent", "Intent", "", "idle", <<>>),
                MkNode(ImportedId + 1, 400, 0, 300, 250, 2, "note", "Note", "", "idle", <<>>)>>,
    edges |-> <<MkEdge(ImportedId, ImportedId, ImportedId + 1)>>]}

\* ------------------------------------------------------------------- state
VARIABLES
  nodes, edges, history, historyIndex, maxZIndex, selectedNodes,
  viewport, zoom, isPanning, panStart, draggedNode, dragOffset,
  resizingNode, resizeStart, connectingFrom, connectingPos, contextMenu,
  timers, armed, clickPending, nextNodeId, nextEdgeId, lastOp, pre, saves, pointerEvents,
  startup, saveTimers, localStorage, processor

graphVars == <<nodes, edges, history, historyIndex, saves, maxZIndex>>
gestureVars == <<isPanning, panStart, draggedNode, dragOffset, resizingNode,
                 resizeStart, connectingFrom, connectingPos>>
viewVars == <<viewport, zoom>>
vars == <<nodes, edges, history, historyIndex, maxZIndex, selectedNodes,
          viewport, zoom, isPanning, panStart, draggedNode, dragOffset,
          resizingNode, resizeStart, connectingFrom, connectingPos, contextMenu,
          timers, armed, clickPending, nextNodeId, nextEdgeId, lastOp, pre, saves, pointerEvents,
          startup, saveTimers, localStorage, processor>>

\* the graph and the cursor before the handler that ran last
Snapshot == [nodes |-> nodes, edges |-> edges, historyIndex |-> historyIndex]

\* the handler that ran last, its arguments, and the command issued before it
Op(name, a, b, prev) == [op |-> name, a |-> a, b |-> b, prev |-> prev]

\* the mutating command a handler issued, "none" if it issued none:
\* an import counts when the file parsed, a pointer-up when it connected
\* (a is the target zone's node) or grouped (b is the drop target)
CommandOf(o) ==
  IF o.op \in {"createNode", "deleteNode", "deleteSelectedNodes", "duplicateNode",
               "clear", "extractFromFolder"}
  THEN o.op
  ELSE IF o.op = "import" /\ o.a = 1 THEN "import"
  ELSE IF o.op = "mouseUp" /\ o.a # Null THEN "connect"
  ELSE IF o.op \in {"mouseUp", "mouseLeave"} /\ o.b # Null THEN "group"
  ELSE "none"

\* clearTimeout(timer) in the cleanup of the auto-save effect
ClearedTimersKept(pending) == pending

ClearedTimers(pending) == <<>>

\* the auto-save effect, run after a commit that changed nodes or edges: the
\* previous run's cleanup, then a timer closing over this render's nodes and edges
autoSaveEffect ==
  /\ saveTimers' = IF nodes' # nodes \/ edges' # edges
                   THEN Append(ClearedTimers(saveTimers), [nodes |-> nodes', edges |-> edges'])
                   ELSE saveTimers
  /\ localStorage' = localStorage

\* bookkeeping shared by every handler and callback
HandlerBase(name, a, b) ==
  /\ lastOp' = Op(name, a, b, CommandOf(lastOp))
  /\ pre' = Snapshot
  /\ startup' = startup

\* a handler of the canvas component: the AI processor component's own state
\* is out of its reach
StepBase(name, a, b) ==
  /\ HandlerBase(name, a, b)
  /\ processor' = processor

\* a keyboard, menu or timer handler; a pending click is dispatched first
Step(name, a, b) ==
  /\ clickPending = <<>>
  /\ clickPending' = <<>>
  /\ pointerEvents' = pointerEvents
  /\ StepBase(name, a, b)

\* a pointer handler of the canvas
PointerStep(name, a, b) ==
  /\ clickPending = <<>>
  /\ clickPending' = <<>>
  /\ pointerEvents < MaxPointerEvents
  /\ pointerEvents' = pointerEvents + 1
  /\ StepBase(name, a, b)


\* a JavaScript value as the initialisers see it: an array with its items, or
\* any other value (a number, an object, a string)
ArrayOf(items) == [array |-> TRUE, items |-> items]

NotAnArray == [array |-> FALSE, items |-> <<>>]

\* a localStorage entry: absent (getItem returns null), text on which
\* JSON.parse throws, or text with the value JSON.parse returns
AbsentEntry == [present |-> FALSE, parses |-> FALSE, value |-> NotAnArray]

GarbageEntry == [present |-> TRUE, parses |-> FALSE, value |-> NotAnArray]

EntryOf(value) == [present |-> TRUE, parses |-> TRUE, value |-> value]

\* the useState initialiser of nodes
InitialNodes(saved) ==
  IF saved.present /\ saved.parses THEN saved.value ELSE ArrayOf(DefaultGraph)

\* the useState initialiser of edges
InitialEdges(saved) ==
  IF saved.present /\ saved.parses THEN saved.value ELSE ArrayOf(<<>>)

\* the component renders (nodes.map, edges.map) only if both are arrays
Rendered == startup.nodes.array /\ startup.edges.array

\* an auto-save that writes the nodes and forgets the edges
autoSaveFireNodesOnly ==
  /\ saveTimers # <<>>
  /\ clickPending = <<>>
  /\ localStorage' = [nodes |-> EntryOf(ArrayOf(saveTimers[1].nodes)),
                      edges |-> localStorage.edges]
  /\ saveTimers' = Tail(saveTimers)
  /\ lastOp' = Op("autoSave", Null, Null, CommandOf(lastOp))
  /\ pre' = Snapshot
  /\ UNCHANGED <<nodes, edges, history, historyIndex, maxZIndex, selectedNodes, viewport,
                 zoom, isPanning, panStart, draggedNode, dragOffset, resizingNode,
                 resizeStart, connectingFrom, connectingPos, contextMenu, timers, armed,
                 clickPending, nextNodeId, nextEdgeId, saves, pointerEvents, startup,
                 processor>>

\* the auto-save timer fires, 1000 ms after the last change: both setItem calls
autoSaveFire ==
  /\ saveTimers # <<>>
  /\ clickPending = <<>>
  /\ localStorage' = [nodes |-> EntryOf(ArrayOf(saveTimers[1].nodes)),
                      edges |-> EntryOf(ArrayOf(saveTimers[1].edges))]
  /\ saveTimers' = Tail(saveTimers)
  /\ lastOp' = Op("autoSave", Null, Null, CommandOf(lastOp))
  /\ pre' = Snapshot
  /\ UNCHANGED <<nodes, edges, history, historyIndex, maxZIndex, selectedNodes, viewport,
                 zoom, isPanning, panStart, draggedNode, dragOffset, resizingNode,
                 resizeStart, connectingFrom, connectingPos, contextMenu, timers, armed,
                 clickPending, nextNodeId, nextEdgeId, saves, pointerEvents, startup,
                 processor>>

\* the state after construction with the given localStorage entries
InitWith(savedNodes, savedEdges) ==
  /\ startup = [savedNodes |-> savedNodes, savedEdges |-> savedEdges,
                nodes |-> InitialNodes(savedNodes), edges |-> InitialEdges(savedEdges)]
  /\ nodes = InitialNodes(savedNodes).items
  /\ edges = InitialEdges(savedEdges).items
  /\ localStorage = [nodes |-> savedNodes, edges |-> savedEdges]
  /\ saveTimers = IF InitialNodes(savedNodes).array /\ InitialEdges(savedEdges).array
                  THEN <<[nodes |-> InitialNodes(savedNodes).items,
                          edges |-> InitialEdges(savedEdges).items]>>
                  ELSE <<>>
  /\ history = <<>>
  /\ historyIndex = -1
  /\ maxZIndex = 1
  /\ selectedNodes = {}
  /\ viewport = Pos(0, 0)
  /\ zoom = ZoomUnit
  /\ isPanning = FALSE
  /\ panStart = Pos(0, 0)
  /\ draggedNode = Null
  /\ dragOffset = Pos(0, 0)
  /\ resizingNode = Null
  /\ resizeStart = <<>>
  /\ connectingFrom = Null
  /\ connectingPos = <<>>
  /\ contextMenu = Null
  /\ timers = <<>>
  /\ armed = Null
  /\ clickPending = <<>>
  /\ nextNodeId = 1
  /\ nextEdgeId = 1
  /\ lastOp = Op("init", Null, Null, "none")
  /\ pre = Snapshot
  /\ saves = 0
  /\ pointerEvents = 0
  /\ processor = [status |-> "idle", calls |-> <<>>, resets |-> 0, started |-> 0]

\* a first start: nothing persisted
Init == InitWith(AbsentEntry, AbsentEntry)

\* ---------------------------------------------------------------- history
HistoryState == [nodes |-> nodes, edges |-> edges]

\* saveToHistory: setHistory(prev => [...prev.slice(0, historyIndex + 1), newState])
PushHistory(h, idx, s) == Slice0(h, idx + 1) \o <<s>>

\* saveToHistory called k times from one handler: both updates are functional
\* and every call closes over the same historyIndex, nodes and edges
SaveToHistory(k) ==
  /\ history' = PushHistory(history, historyIndex, HistoryState)
  /\ historyIndex' = historyIndex + k
  /\ saves' = saves + k

\* a handler that does not call saveToHistory
NoSave == UNCHANGED <<history, historyIndex, saves>>

\* ---------------------------------------------------------- graph commands
\* createNode(type), from the menu, the dock or Ctrl+N
createNode(type) ==
  /\ Step("createNode", nextNodeId, Null)
  /\ SaveToHistory(1)
  /\ LET size == DefaultSize(type)
         newNode == MkNode(nextNodeId,
                           ((0 - viewport.x) * ZoomUnit) \div zoom + CreateOffset,
                           ((0 - viewport.y) * ZoomUnit) \div zoom + CreateOffset,
                           size.w, size.h, maxZIndex + 1, type, Capitalize(type),
                           "", "idle", <<>>)
     IN nodes' = Append(nodes, newNode)
  /\ maxZIndex' = maxZIndex + 1
  /\ nextNodeId' = nextNodeId + 1
  /\ UNCHANGED <<edges, selectedNodes, viewVars, gestureVars, contextMenu,
                 timers, armed, nextEdgeId>>
  /\ autoSaveEffect

\* deleteNode whose edge filter forgets the edges that end at the node
deleteNodeKeepsIncoming ==
  /\ contextMenu # Null
  /\ Step("deleteNode", contextMenu, Null)
  /\ SaveToHistory(1)
  /\ nodes' = SelectSeq(nodes, LAMBDA n : n.id # contextMenu)
  /\ edges' = SelectSeq(edges, LAMBDA e : e.from # contextMenu)
  /\ contextMenu' = Null
  /\ UNCHANGED <<maxZIndex, selectedNodes, viewVars, gestureVars, timers, armed,
                 nextNodeId, nextEdgeId>>
  /\ autoSaveEffect

\* context menu "Delete": deleteNode(contextMenu.nodeId), then the menu closes
deleteNode ==
  /\ contextMenu # Null
  /\ Step("deleteNode", contextMenu, Null)
  /\ SaveToHistory(1)
  /\ nodes' = SelectSeq(nodes, LAMBDA n : n.id # contextMenu)
  /\ edges' = SelectSeq(edges, LAMBDA e : e.from # contextMenu /\ e.to # contextMenu)
  /\ contextMenu' = Null
  /\ UNCHANGED <<maxZIndex, selectedNodes, viewVars, gestureVars, timers, armed,
                 nextNodeId, nextEdgeId>>
  /\ autoSaveEffect

\* Delete key: guarded by selectedNodes.size > 0 in handleKeyDown
deleteSelectedNodes ==
  /\ selectedNodes # {}
  /\ Step("deleteSelectedNodes", Null, Null)
  /\ SaveToHistory(1)
  /\ nodes' = SelectSeq(nodes, LAMBDA n : n.id \notin selectedNodes)
  /\ edges' = SelectSeq(edges, LAMBDA e : e.from \notin selectedNodes /\ e.to \notin selectedNodes)
  /\ selectedNodes' = {}
  /\ UNCHANGED <<maxZIndex, viewVars, gestureVars, contextMenu, timers, armed,
                 nextNodeId, nextEdgeId>>
  /\ autoSaveEffect

\* the copy duplicateNode appends: { ...node, id, position + 30, zIndex }
DuplicateOf(node, id, z) ==
  [node EXCEPT !.id = id, !.x = node.x + DuplicateOffset,
               !.y = node.y + DuplicateOffset, !.zIndex = z]

\* context menu "Duplicate": history is saved before the node is looked up
duplicateNode ==
  /\ contextMenu # Null
  /\ Step("duplicateNode", contextMenu, nextNodeId)
  /\ SaveToHistory(1)
  /\ LET i == FindId(nodes, contextMenu)
     IN IF i # 0
        THEN /\ nodes' = Append(nodes, DuplicateOf(nodes[i], nextNodeId, maxZIndex + 1))
             /\ maxZIndex' = maxZIndex + 1
             /\ nextNodeId' = nextNodeId + 1
        ELSE UNCHANGED <<nodes, maxZIndex, nextNodeId>>
  /\ contextMenu' = Null
  /\ UNCHANGED <<edges, selectedNodes, viewVars, gestureVars, timers, armed, nextEdgeId>>
  /\ autoSaveEffect

\* updateNode(id, { zIndex }) over a node list
SetZ(s, id, z) == MapSeq(s, LAMBDA n : IF n.id = id THEN [n EXCEPT !.zIndex = z] ELSE n)

\* context menu "Bring to Front": guarded by nodes.find in the click handler
bringToFront ==
  /\ contextMenu # Null
  /\ Step("bringToFront", contextMenu, Null)
  /\ IF FindId(nodes, contextMenu) # 0
     THEN /\ nodes' = SetZ(nodes, contextMenu, maxZIndex + 1)
          /\ maxZIndex' = maxZIndex + 1
     ELSE UNCHANGED <<nodes, maxZIndex>>
  /\ contextMenu' = Null
  /\ UNCHANGED <<edges, history, historyIndex, saves, selectedNodes, viewVars, gestureVars,
                 timers, armed, nextNodeId, nextEdgeId>>
  /\ autoSaveEffect

\* undo guarded by historyIndex >= 0 and restoring history[historyIndex]
undoFromCursor ==
  /\ Step("undo", Null, Null)
  /\ IF historyIndex >= 0 /\ historyIndex < Len(history)
     THEN /\ nodes' = history[historyIndex + 1].nodes
          /\ edges' = history[historyIndex + 1].edges
          /\ historyIndex' = historyIndex - 1
     ELSE UNCHANGED <<nodes, edges, historyIndex>>
  /\ UNCHANGED <<history, saves, maxZIndex, selectedNodes, viewVars, gestureVars,
                 contextMenu, timers, armed, nextNodeId, nextEdgeId>>
  /\ autoSaveEffect

\* undo: history[historyIndex - 1]; reading past the end throws before any update
undo ==
  /\ Step("undo", Null, Null)
  /\ IF historyIndex > 0 /\ historyIndex <= Len(history)
     THEN /\ nodes' = history[historyIndex].nodes
          /\ edges' = history[historyIndex].edges
          /\ historyIndex' = historyIndex - 1
     ELSE UNCHANGED <<nodes, edges, historyIndex>>
  /\ UNCHANGED <<history, saves, maxZIndex, selectedNodes, viewVars, gestureVars,
                 contextMenu, timers, armed, nextNodeId, nextEdgeId>>
  /\ autoSaveEffect

\* redo: history[historyIndex + 1]
redo ==
  /\ Step("redo", Null, Null)
  /\ IF historyIndex < Len(history) - 1
     THEN /\ nodes' = history[historyIndex + 2].nodes
          /\ edges' = history[historyIndex + 2].edges
          /\ historyIndex' = historyIndex + 1
     ELSE UNCHANGED <<nodes, edges, historyIndex>>
  /\ UNCHANGED <<history, saves, maxZIndex, selectedNodes, viewVars, gestureVars,
                 contextMenu, timers, armed, nextNodeId, nextEdgeId>>
  /\ autoSaveEffect

\* handleSearch "clear", confirmed
clearAll ==
  /\ Step("clear", Null, Null)
  /\ SaveToHistory(1)
  /\ nodes' = <<>>
  /\ edges' = <<>>
  /\ UNCHANGED <<maxZIndex, selectedNodes, viewVars, gestureVars, contextMenu,
                 timers, armed, nextNodeId, nextEdgeId>>
  /\ autoSaveEffect

\* handleImport's reader.onload.  A file is its text as JSON.parse sees it: ok
\* when it parses, nonNull when the parsed value has properties (data.nodes
\* of null throws after saveToHistory, and the catch reports a failed import)
handleImport(file) ==
  /\ Step("import", IF file.ok THEN 1 ELSE 0, IF file.ok /\ file.nonNull THEN 1 ELSE 0)
  /\ IF file.ok
     THEN /\ SaveToHistory(1)
          /\ IF file.nonNull
             THEN /\ nodes' = file.nodes
                  /\ edges' = file.edges
             ELSE UNCHANGED <<nodes, edges>>
     ELSE UNCHANGED <<nodes, edges, history, historyIndex, saves>>
  /\ UNCHANGED <<maxZIndex, selectedNodes, viewVars, gestureVars, contextMenu,
                 timers, armed, nextNodeId, nextEdgeId>>
  /\ autoSaveEffect

\* ------------------------------------------------------------- expansion
\* expandIntent(nodeId) up to the setTimeout: the callback closes over node,
\* nodes, edges and maxZIndex (and over updateNode, hence nodes again)
ExpandStart(id) ==
  LET i == FindId(nodes, id)
  IN IF i # 0
     THEN /\ SaveToHistory(1)
          /\ nodes' = MapSeq(nodes, LAMBDA n : IF n.id = id
                                                THEN WithData(n, nodes[i], "processing")
                                                ELSE n)
          /\ timers' = Append(timers, [nodeId |-> id, node |-> nodes[i], nodes |-> nodes,
                                       edges |-> edges, maxZIndex |-> maxZIndex])
     ELSE UNCHANGED <<nodes, history, historyIndex, saves, timers>>

\* context menu "Expand with AI"
expandIntent ==
  /\ contextMenu # Null
  /\ Step("expandIntent", contextMenu, Null)
  /\ ExpandStart(contextMenu)
  /\ contextMenu' = Null
  /\ UNCHANGED <<edges, maxZIndex, selectedNodes, viewVars, gestureVars, armed,
                 nextNodeId, nextEdgeId>>
  /\ autoSaveEffect

\* main menu "Expand with AI": only with exactly one selected node
expandSelected ==
  /\ Cardinality(selectedNodes) = 1
  /\ Step("expandIntent", CHOOSE id \in selectedNodes : TRUE, Null)
  /\ ExpandStart(CHOOSE id \in selectedNodes : TRUE)
  /\ UNCHANGED <<edges, maxZIndex, selectedNodes, viewVars, gestureVars, contextMenu,
                 armed, nextNodeId, nextEdgeId>>
  /\ autoSaveEffect

\* the node list the timeout callback leaves: setNodes([...nodes, ...newNodes])
\* is overwritten by updateNode's setNodes(nodes.map(...)) in the same batch
ExpandedNodes(c) ==
  MapSeq(c.nodes, LAMBDA n : IF n.id = c.nodeId THEN WithData(n, c.node, "validated") ELSE n)

\* the setTimeout callback of expandIntent, 1500 ms later
expandComplete(k) ==
  /\ k \in 1..Len(timers)
  /\ Step("expandComplete", timers[k].nodeId, Null)
  /\ LET c == timers[k]
     IN /\ nodes' = ExpandedNodes(c)
        /\ edges' = c.edges \o
             <<MkEdge(nextEdgeId, c.nodeId, ExpansionIdBase + nextEdgeId),
               MkEdge(nextEdgeId + 1, c.nodeId, ExpansionIdBase + nextEdgeId + 1)>>
        /\ maxZIndex' = c.maxZIndex + 2
  /\ timers' = RemoveAt(timers, k)
  /\ nextEdgeId' = nextEdgeId + 2
  /\ UNCHANGED <<history, historyIndex, saves, selectedNodes, viewVars, gestureVars,
                 contextMenu, armed, nextNodeId>>
  /\ autoSaveEffect

\* ---------------------------------------------------------------- folders
\* setNodes(prevNodes => ...) of extractFromFolder
ExtractedNodes(prev, folderId, childId, z) ==
  LET f == FindId(prev, folderId)
  IN IF f = 0 THEN prev
     ELSE LET c == FindId(prev[f].children, childId)
          IN IF c = 0 THEN prev
             ELSE LET child == prev[f].children[c]
                      extractedNode == [child EXCEPT !.x = prev[f].x + prev[f].w + ExtractGap,
                                                     !.y = prev[f].y, !.zIndex = z]
                      updatedNodes == MapSeq(prev, LAMBDA n :
                         IF n.id = folderId
                         THEN [n EXCEPT !.children = SelectSeq(n.children, LAMBDA ch : ch.id # childId)]
                         ELSE n)
                  IN Append(updatedNodes, extractedNode)

\* the extract button of a child row rendered inside a folder node
extractFromFolder(f, c) ==
  /\ f \in 1..Len(nodes)
  /\ nodes[f].type = "folder"
  /\ c \in 1..Len(nodes[f].children)
  /\ Step("extractFromFolder", nodes[f].id, nodes[f].children[c].id)
  /\ nodes' = ExtractedNodes(nodes, nodes[f].id, nodes[f].children[c].id, maxZIndex + 1)
  /\ maxZIndex' = maxZIndex + 1
  /\ UNCHANGED <<edges, history, historyIndex, saves, selectedNodes, viewVars, gestureVars,
                 contextMenu, timers, armed, nextNodeId, nextEdgeId>>
  /\ autoSaveEffect

\* does createFolder build a new folder (rather than add to one, or return)?
MakesNewFolder(s, sourceId, targetId) ==
  /\ FindId(s, sourceId) # 0
  /\ FindId(s, targetId) # 0
  /\ s[FindId(s, targetId)].type # "folder"

\* the node list createFolder(sourceId, targetId) leaves
FolderedNodes(s, sourceId, targetId, folderId, z) ==
  LET si == FindId(s, sourceId)
      ti == FindId(s, targetId)
  IN IF si = 0 \/ ti = 0 THEN s
     ELSE IF s[ti].type = "folder"
          THEN SelectSeq(MapSeq(s, LAMBDA n :
                   IF n.id = targetId
                   THEN [n EXCEPT !.children = Append(n.children, s[si])]
                   ELSE n),
                 LAMBDA n : n.id # sourceId)
          ELSE Append(SelectSeq(s, LAMBDA n : n.id # sourceId /\ n.id # targetId),
                      MkNode(folderId, s[ti].x, s[ti].y, FolderWidth, FolderHeight, z,
                             "folder", "New Group", "", "validated", <<s[ti], s[si]>>))

\* --------------------------------------------------------------- selection
\* Ctrl+A
selectAll ==
  /\ Step("selectAll", Null, Null)
  /\ selectedNodes' = Ids(nodes)
  /\ UNCHANGED <<graphVars, viewVars, gestureVars, contextMenu, timers, armed,
                 nextNodeId, nextEdgeId>>
  /\ autoSaveEffect

\* Escape
deselectAll ==
  /\ Step("escape", Null, Null)
  /\ selectedNodes' = {}
  /\ UNCHANGED <<graphVars, viewVars, gestureVars, contextMenu, timers, armed,
                 nextNodeId, nextEdgeId>>
  /\ autoSaveEffect

\* onContextMenu of a rendered node
openContextMenu(i) ==
  /\ i \in 1..Len(nodes)
  /\ Step("contextMenu", nodes[i].id, Null)
  /\ contextMenu' = nodes[i].id
  /\ UNCHANGED <<graphVars, selectedNodes, viewVars, gestureVars, timers, armed,
                 nextNodeId, nextEdgeId>>
  /\ autoSaveEffect

\* ---------------------------------------------------------------- geometry
\* world length -> screen length under the CSS scale(zoom)
Scale(v) == (v * zoom) \div ZoomUnit

\* screen length -> world length: v / zoom
Unscale(v) == (v * ZoomUnit) \div zoom

\* is screen point p inside the box the node is rendered in?
Hit(n, p) ==
  /\ p.x >= Scale(n.x) + viewport.x
  /\ p.x < Scale(n.x) + viewport.x + Scale(n.w)
  /\ p.y >= Scale(n.y) + viewport.y
  /\ p.y < Scale(n.y) + viewport.y + Scale(n.h)

\* the rendered node an event at p is dispatched to: highest zIndex, then DOM order
TopNodeAt(p) ==
  IF \E i \in 1..Len(nodes) : Hit(nodes[i], p)
  THEN CHOOSE i \in 1..Len(nodes) :
         /\ Hit(nodes[i], p)
         /\ \A j \in 1..Len(nodes) : Hit(nodes[j], p) =>
              \/ nodes[j].zIndex < nodes[i].zIndex
              \/ (nodes[j].zIndex = nodes[i].zIndex /\ j <= i)
  ELSE 0

\* connection target zone of node n: its box grown by 10 on every side
InZone(n, p) ==
  /\ p.x >= Scale(n.x - ZoneMargin) + viewport.x
  /\ p.x < Scale(n.x - ZoneMargin) + viewport.x + Scale(n.w + 2 * ZoneMargin)
  /\ p.y >= Scale(n.y - ZoneMargin) + viewport.y
  /\ p.y < Scale(n.y - ZoneMargin) + viewport.y + Scale(n.h + 2 * ZoneMargin)

\* zones are rendered above every node while connectingFrom is set
ZoneAt(p) ==
  IF connectingFrom # Null
     /\ \E i \in 1..Len(nodes) : nodes[i].id # connectingFrom /\ InZone(nodes[i], p)
  THEN CHOOSE i \in 1..Len(nodes) :
         /\ nodes[i].id # connectingFrom /\ InZone(nodes[i], p)
         /\ \A j \in 1..Len(nodes) :
              (nodes[j].id # connectingFrom /\ InZone(nodes[j], p)) => j <= i
  ELSE 0

\* handleMouseUp's drop target: first other node whose box, offset by the
\* viewport only, strictly contains the pointer
DropTarget(movingId, p) ==
  LET over(n) == /\ n.id # movingId
                 /\ p.x > n.x + viewport.x
                 /\ p.x < n.x + viewport.x + n.w
                 /\ p.y > n.y + viewport.y
                 /\ p.y < n.y + viewport.y + n.h
  IN IF \E i \in 1..Len(nodes) : over(nodes[i])
     THEN CHOOSE i \in 1..Len(nodes) : over(nodes[i]) /\ \A j \in 1..(i-1) : ~over(nodes[j])
     ELSE 0

\* ------------------------------------------------------------------ wheel
ClampZoomUpperOnly(z) == Min(z, ZoomMax)

\* Math.min(Math.max(0.1, z), 3), in thousandths
ClampZoom(z) == Min(Max(ZoomMin, z), ZoomMax)

\* handleWheel: with ctrl the zoom changes by deltaY * -0.001, otherwise the
\* viewport scrolls by the deltas
handleWheel(ctrlKey, deltaX, deltaY) ==
  /\ Step("wheel", IF ctrlKey THEN 1 ELSE 0, Null)
  /\ IF ctrlKey
     THEN /\ zoom' = ClampZoom(zoom - deltaY)
          /\ viewport' = viewport
     ELSE /\ viewport' = Pos(viewport.x - deltaX, viewport.y - deltaY)
          /\ zoom' = zoom
  /\ UNCHANGED <<graphVars, selectedNodes, gestureVars, contextMenu, timers, armed,
                 nextNodeId, nextEdgeId>>
  /\ autoSaveEffect

\* ----------------------------------------------------------- pointer down
\* handleMouseDown of the canvas: closes the context menu, may start panning
CanvasDown(p, button, onCanvas) ==
  /\ contextMenu' = Null
  /\ IF button = 1 \/ (button = 0 /\ onCanvas)
     THEN /\ isPanning' = TRUE
          /\ panStart' = Pos(p.x - viewport.x, p.y - viewport.y)
     ELSE UNCHANGED <<isPanning, panStart>>

\* pointer-down where no node and no zone is rendered
canvasMouseDown(p, button, target) ==
  /\ ZoneAt(p) = 0
  /\ TopNodeAt(p) = 0
  /\ PointerStep("canvasMouseDown", button, Null)
  /\ CanvasDown(p, button, target = "canvas")
  /\ armed' = IF button = 0 THEN Null ELSE armed
  /\ UNCHANGED <<graphVars, selectedNodes, viewVars, draggedNode, dragOffset,
                 resizingNode, resizeStart, connectingFrom, connectingPos, timers,
                 nextNodeId, nextEdgeId>>
  /\ autoSaveEffect

\* pointer-down on a connection target zone: only the canvas handler runs
zoneMouseDown(p, button) ==
  /\ ZoneAt(p) # 0
  /\ PointerStep("zoneMouseDown", button, Null)
  /\ CanvasDown(p, button, FALSE)
  /\ armed' = IF button = 0 THEN Null ELSE armed
  /\ UNCHANGED <<graphVars, selectedNodes, viewVars, draggedNode, dragOffset,
                 resizingNode, resizeStart, connectingFrom, connectingPos, timers,
                 nextNodeId, nextEdgeId>>
  /\ autoSaveEffect

\* onResizeStart: stopPropagation, so neither onSelect nor the canvas handler runs
resizeMouseDown(p) ==
  /\ ZoneAt(p) = 0
  /\ TopNodeAt(p) # 0
  /\ PointerStep("resizeMouseDown", nodes[TopNodeAt(p)].id, Null)
  /\ resizingNode' = nodes[TopNodeAt(p)].id
  /\ resizeStart' = <<[w |-> nodes[TopNodeAt(p)].w, h |-> nodes[TopNodeAt(p)].h,
                       x |-> p.x, y |-> p.y]>>
  /\ UNCHANGED <<graphVars, selectedNodes, viewVars, isPanning, panStart, draggedNode,
                 dragOffset, connectingFrom, connectingPos, contextMenu, timers, armed,
                 nextNodeId, nextEdgeId>>
  /\ autoSaveEffect

\* startConnecting from the connection point (onMouseDown): stopPropagation
connectPointMouseDown(p) ==
  /\ ZoneAt(p) = 0
  /\ TopNodeAt(p) # 0
  /\ PointerStep("connectPointMouseDown", nodes[TopNodeAt(p)].id, Null)
  /\ connectingFrom' = nodes[TopNodeAt(p)].id
  /\ connectingPos' = <<p>>
  /\ UNCHANGED <<graphVars, selectedNodes, viewVars, isPanning, panStart, draggedNode,
                 dragOffset, resizingNode, resizeStart, contextMenu, timers, armed,
                 nextNodeId, nextEdgeId>>
  /\ autoSaveEffect

\* NodeComponent onMouseDown (onSelect, then onDragStart on the header or the
\* background), bubbling to the canvas handleMouseDown
nodeMouseDown(p, button, shift, part) ==
  /\ ZoneAt(p) = 0
  /\ TopNodeAt(p) # 0
  /\ part \in {"header", "content", "connectButton"}
  /\ LET n == nodes[TopNodeAt(p)]
     IN /\ PointerStep("nodeMouseDown", n.id, button)
        /\ IF shift
           THEN /\ selectedNodes' = IF n.id \in selectedNodes
                                    THEN selectedNodes \ {n.id}
                                    ELSE selectedNodes \cup {n.id}
                /\ UNCHANGED <<nodes, maxZIndex>>
           ELSE /\ selectedNodes' = {n.id}
                /\ nodes' = SetZ(nodes, n.id, maxZIndex + 1)
                /\ maxZIndex' = maxZIndex + 1
        /\ IF part \in {"header", "connectButton"}
           THEN /\ draggedNode' = n.id
                /\ dragOffset' = Pos(p.x - n.x, p.y - n.y)
           ELSE UNCHANGED <<draggedNode, dragOffset>>
        /\ armed' = IF button # 0 THEN armed
                    ELSE IF part = "connectButton" THEN n.id ELSE Null
  /\ CanvasDown(p, button, FALSE)
  /\ UNCHANGED <<edges, history, historyIndex, saves, viewVars, resizingNode, resizeStart,
                 connectingFrom, connectingPos, timers, nextNodeId, nextEdgeId>>
  /\ autoSaveEffect

\* ----------------------------------------------------------- pointer move
\* a multi-node drag that moves the dragged node alone
DraggedNodesLeaderOnly(p) ==
  LET wx == Unscale(p.x - viewport.x) - dragOffset.x
      wy == Unscale(p.y - viewport.y) - dragOffset.y
  IN MapSeq(nodes, LAMBDA n :
       IF n.id = draggedNode THEN [n EXCEPT !.x = wx, !.y = wy] ELSE n)

\* the node list handleMouseMove sets for a drag (multi-node or single)
DraggedNodes(p) ==
  LET wx == Unscale(p.x - viewport.x) - dragOffset.x
      wy == Unscale(p.y - viewport.y) - dragOffset.y
      d == FindId(nodes, draggedNode)
  IN IF draggedNode \in selectedNodes /\ Cardinality(selectedNodes) > 1
     THEN IF d = 0 THEN nodes
          ELSE MapSeq(nodes, LAMBDA n :
                 IF n.id \in selectedNodes
                 THEN [n EXCEPT !.x = n.x + (wx - nodes[d].x), !.y = n.y + (wy - nodes[d].y)]
                 ELSE n)
     ELSE MapSeq(nodes, LAMBDA n :
            IF n.id = draggedNode THEN [n EXCEPT !.x = wx, !.y = wy] ELSE n)

ResizedNodesUnclamped(p) ==
  LET r == resizeStart[1]
  IN MapSeq(nodes, LAMBDA n :
       IF n.id = resizingNode
       THEN [n EXCEPT !.w = r.w + Unscale(p.x - r.x), !.h = r.h + Unscale(p.y - r.y)]
       ELSE n)

\* the node list handleMouseMove sets for a resize
ResizedNodes(p) ==
  LET r == resizeStart[1]
  IN MapSeq(nodes, LAMBDA n :
       IF n.id = resizingNode
       THEN [n EXCEPT !.w = Max(MinWidth, r.w + Unscale(p.x - r.x)),
                      !.h = Max(MinHeight, r.h + Unscale(p.y - r.y))]
       ELSE n)

\* a handleMouseMove that snapshots every position or size update
handleMouseMoveSnapshots(p) ==
  /\ PointerStep("mouseMove", Null, Null)
  /\ viewport' = IF isPanning THEN Pos(p.x - panStart.x, p.y - panStart.y) ELSE viewport
  /\ nodes' = IF resizingNode # Null /\ resizeStart # <<>> /\ FindId(nodes, resizingNode) # 0
              THEN ResizedNodes(p)
              ELSE IF draggedNode # Null THEN DraggedNodes(p) ELSE nodes
  /\ connectingPos' = IF connectingFrom # Null THEN <<p>> ELSE connectingPos
  /\ IF draggedNode # Null \/ resizingNode # Null
     THEN SaveToHistory(1)
     ELSE NoSave
  /\ UNCHANGED <<edges, maxZIndex, selectedNodes, zoom, isPanning,
                 panStart, draggedNode, dragOffset, resizingNode, resizeStart,
                 connectingFrom, contextMenu, timers, armed, nextNodeId, nextEdgeId>>
  /\ autoSaveEffect

\* handleMouseMove: every active gesture is served; the resize's updateNode is
\* the later setNodes and overrides the drag's
handleMouseMove(p) ==
  /\ PointerStep("mouseMove", Null, Null)
  /\ viewport' = IF isPanning THEN Pos(p.x - panStart.x, p.y - panStart.y) ELSE viewport
  /\ nodes' = IF resizingNode # Null /\ resizeStart # <<>> /\ FindId(nodes, resizingNode) # 0
              THEN ResizedNodes(p)
              ELSE IF draggedNode # Null THEN DraggedNodes(p) ELSE nodes
  /\ connectingPos' = IF connectingFrom # Null THEN <<p>> ELSE connectingPos
  /\ UNCHANGED <<edges, history, historyIndex, saves, maxZIndex, selectedNodes, zoom, isPanning,
                 panStart, draggedNode, dragOffset, resizingNode, resizeStart,
                 connectingFrom, contextMenu, timers, armed, nextNodeId, nextEdgeId>>
  /\ autoSaveEffect

\* ------------------------------------------------------------- pointer up
\* handleMouseUp that forgets to close the connect gesture
CanvasUpKeepsConnecting(p) ==
  /\ LET m == IF draggedNode # Null THEN FindId(nodes, draggedNode) ELSE 0
         t == IF m # 0 THEN DropTarget(nodes[m].id, p) ELSE 0
     IN IF t # 0
        THEN /\ nodes' = FolderedNodes(nodes, nodes[m].id, nodes[t].id,
                                        FolderIdBase + pointerEvents, maxZIndex + 1)
             /\ maxZIndex' = IF MakesNewFolder(nodes, nodes[m].id, nodes[t].id)
                             THEN maxZIndex + 1 ELSE maxZIndex
        ELSE UNCHANGED <<nodes, maxZIndex>>
  /\ isPanning' = FALSE
  /\ draggedNode' = Null
  /\ resizingNode' = Null
  /\ resizeStart' = <<>>
  /\ UNCHANGED <<connectingFrom, connectingPos>>

\* handleMouseUp: a drop on another node groups, then every gesture is cleared
CanvasUp(p) ==
  /\ LET m == IF draggedNode # Null THEN FindId(nodes, draggedNode) ELSE 0
         t == IF m # 0 THEN DropTarget(nodes[m].id, p) ELSE 0
     IN IF t # 0
        THEN /\ nodes' = FolderedNodes(nodes, nodes[m].id, nodes[t].id,
                                        FolderIdBase + pointerEvents, maxZIndex + 1)
             /\ maxZIndex' = IF MakesNewFolder(nodes, nodes[m].id, nodes[t].id)
                             THEN maxZIndex + 1 ELSE maxZIndex
        ELSE UNCHANGED <<nodes, maxZIndex>>
  /\ isPanning' = FALSE
  /\ draggedNode' = Null
  /\ resizingNode' = Null
  /\ resizeStart' = <<>>
  /\ connectingFrom' = Null
  /\ connectingPos' = <<>>

\* pointer-up inside the canvas.  On a connection target zone finishConnection
\* runs first; the event then bubbles to handleMouseUp.  A release on the
\* connect button the press began on is followed by its click.
handleMouseUp(p, onButton) ==
  /\ clickPending = <<>>
  /\ pointerEvents < MaxPointerEvents
  /\ pointerEvents' = pointerEvents + 1
  /\ StepBase("mouseUp", IF ZoneAt(p) # 0 THEN nodes[ZoneAt(p)].id ELSE Null,
              IF draggedNode # Null /\ FindId(nodes, draggedNode) # 0
                 /\ DropTarget(draggedNode, p) # 0
              THEN nodes[DropTarget(draggedNode, p)].id ELSE Null)
  /\ IF ZoneAt(p) # 0 /\ connectingFrom # nodes[ZoneAt(p)].id
     THEN /\ SaveToHistory(1)
          /\ edges' = Append(edges, MkEdge(nextEdgeId, connectingFrom, nodes[ZoneAt(p)].id))
          /\ nextEdgeId' = nextEdgeId + 1
     ELSE UNCHANGED <<edges, history, historyIndex, saves, nextEdgeId>>
  /\ CanvasUp(p)
  /\ clickPending' = IF /\ onButton /\ armed # Null /\ ZoneAt(p) = 0
                        /\ TopNodeAt(p) # 0 /\ nodes[TopNodeAt(p)].id = armed
                        /\ armed \in Ids(nodes')
                     THEN <<[id |-> armed, x |-> p.x, y |-> p.y]>>
                     ELSE <<>>
  /\ armed' = Null
  /\ UNCHANGED <<selectedNodes, viewVars, panStart, dragOffset, contextMenu, timers,
                 nextNodeId>>
  /\ autoSaveEffect

\* onMouseLeave of the canvas is the same handler
handleMouseLeave(p) ==
  /\ PointerStep("mouseLeave", Null,
                 IF draggedNode # Null /\ FindId(nodes, draggedNode) # 0
                    /\ DropTarget(draggedNode, p) # 0
                 THEN nodes[DropTarget(draggedNode, p)].id ELSE Null)
  /\ CanvasUp(p)
  /\ armed' = Null
  /\ UNCHANGED <<edges, history, historyIndex, saves, nextEdgeId, selectedNodes, viewVars,
                 panStart, dragOffset, contextMenu, timers, nextNodeId>>
  /\ autoSaveEffect

\* onClick of the header connect button: startConnecting
connectButtonClick ==
  /\ clickPending # <<>>
  /\ StepBase("connectClick", clickPending[1].id, Null)
  /\ pointerEvents' = pointerEvents
  /\ connectingFrom' = clickPending[1].id
  /\ connectingPos' = <<Pos(clickPending[1].x, clickPending[1].y)>>
  /\ clickPending' = <<>>
  /\ UNCHANGED <<graphVars, selectedNodes, viewVars, isPanning, panStart, draggedNode,
                 dragOffset, resizingNode, resizeStart, contextMenu, timers, armed,
                 nextNodeId, nextEdgeId>>
  /\ autoSaveEffect

\* ------------------------------------------------------ conflict detection
\* onContentChange of a rendered node: updateNode(node.id, {data: {...node.data, content}})
onContentChange(i, content) ==
  /\ i \in 1..Len(nodes)
  /\ Step("contentChange", nodes[i].id, Null)
  /\ nodes' = [j \in 1..Len(nodes) |->
                 IF nodes[j].id = nodes[i].id
                 THEN [nodes[j] EXCEPT !.content = content] ELSE nodes[j]]
  /\ UNCHANGED <<edges, history, historyIndex, saves, maxZIndex, selectedNodes, viewVars,
                 gestureVars, contextMenu, timers, armed, nextNodeId, nextEdgeId>>
  /\ autoSaveEffect

conflictKeywords ==
  << <<"cheap", "expensive", "premium", "budget", "costly">>,
     <<"fast", "slow", "quick", "delayed", "rapid">>,
     <<"simple", "complex", "easy", "difficult", "complicated">>,
     <<"secure", "risky", "unsafe", "vulnerable", "dangerous">>,
     <<"agree", "disagree", "conflict", "oppose">>,
     <<"increase", "decrease", "reduce", "grow", "shrink">> >>

UpperCaseLetters == "ABCDEFGHIJKLMNOPQRSTUVWXYZ"

LowerCaseLetters == "abcdefghijklmnopqrstuvwxyz"

CharAt(str, i) == SubSeq(str, i, i)

\* the lower-case letter of each upper-case letter
LowerOf ==
  [c \in {CharAt(UpperCaseLetters, k) : k \in 1..Len(UpperCaseLetters)} |->
     CharAt(LowerCaseLetters,
            CHOOSE k \in 1..Len(UpperCaseLetters) : CharAt(UpperCaseLetters, k) = c)]

toLowerCaseChar(c) == IF c \in DOMAIN LowerOf THEN LowerOf[c] ELSE c

\* String.prototype.toLowerCase, character by character
RECURSIVE toLowerCase(_)
toLowerCase(str) ==
  IF Len(str) = 0 THEN ""
  ELSE IF Len(str) = 1 THEN toLowerCaseChar(str)
  ELSE LET half == Len(str) \div 2
       IN toLowerCase(SubSeq(str, 1, half)) \o toLowerCase(SubSeq(str, half + 1, Len(str)))

\* String.prototype.includes
includes(str, kw) ==
  \E i \in 1..(Len(str) - Len(kw) + 1) : SubSeq(str, i, i + Len(kw) - 1) = kw

\* keywords.filter(kw => content.includes(kw))
KeywordMatches(keywords, content) ==
  SelectSeq(keywords, LAMBDA kw : includes(content, kw))

KeywordConflictAnyMatch(fromMatches, toMatches) ==
  Len(fromMatches) > 0 /\ Len(toMatches) > 0

KeywordConflictFirstAndLast(fromMatches, toMatches) ==
  /\ Len(fromMatches) > 0
  /\ Len(toMatches) > 0
  /\ fromMatches[1] # toMatches[Len(toMatches)]

\* fromMatches.length > 0 && toMatches.length > 0, then fromMatches[0] !== toMatches[0]
KeywordConflict(fromMatches, toMatches) ==
  /\ Len(fromMatches) > 0
  /\ Len(toMatches) > 0
  /\ fromMatches[1] # toMatches[1]

\* conflictKeywords.forEach from group g on: one push of the edge id per group
RECURSIVE GroupPushes(_, _, _, _)
GroupPushes(fromContent, toContent, edgeId, g) ==
  IF g > Len(conflictKeywords) THEN <<>>
  ELSE (IF KeywordConflict(KeywordMatches(conflictKeywords[g], fromContent),
                           KeywordMatches(conflictKeywords[g], toContent))
        THEN <<edgeId>> ELSE <<>>)
       \o GroupPushes(fromContent, toContent, edgeId, g + 1)

\* the body of edges.forEach for one edge
EdgePushes(ns, edge) ==
  LET f == FindId(ns, edge.from)
      t == FindId(ns, edge.to)
  IN IF f # 0 /\ t # 0
     THEN GroupPushes(toLowerCase(ns[f].content), toLowerCase(ns[t].content), edge.id, 1)
     ELSE <<>>

RECURSIVE detectConflicts(_, _)
detectConflicts(ns, es) ==
  IF es = <<>> THEN <<>>
  ELSE EdgePushes(ns, Head(es)) \o detectConflicts(ns, Tail(es))

\* the conflict detection effect runs after every commit that changed nodes or
\* edges: setConflictedEdges(detectConflicts(nodes, edges))
conflictedEdges == detectConflicts(nodes, edges)

\* ------------------------------------------------------------------ search
\* Object.keys(nodeTypeConfig)
NodeTypeKeys ==
  <<"intent", "hypothesis", "decision", "memory", "conflict", "note", "folder",
    "image", "kernel-script", "code", "voice">>

\* the node createNode builds
CreatedNode(type, id) ==
  MkNode(id,
         ((0 - viewport.x) * ZoomUnit) \div zoom + CreateOffset,
         ((0 - viewport.y) * ZoomUnit) \div zoom + CreateOffset,
         DefaultSize(type).w, DefaultSize(type).h, maxZIndex + 1, type, Capitalize(type),
         "", "idle", <<>>)

\* the node list the create commands of one search leave: every createNode
\* sets [...nodes, newNode] over the same nodes, and the last set wins
SearchedNodes(matched) ==
  IF matched = <<>> THEN nodes
  ELSE Append(nodes, CreatedNode(matched[Len(matched)], nextNodeId + Len(matched) - 1))

\* handleSearch (Enter in the search box).  Every createNode, expandIntent and
\* the clear branch run in the one event, over the same nodes, edges,
\* historyIndex and maxZIndex; confirmed is the answer to window.confirm
handleSearch(searchQuery, confirmed) ==
  LET q == toLowerCase(searchQuery)
      matched == IF includes(q, "create") \/ includes(q, "new")
                 THEN SelectSeq(NodeTypeKeys, LAMBDA type : includes(q, type))
                 ELSE <<>>
      expands == includes(q, "expand") /\ Cardinality(selectedNodes) = 1
      target == IF expands THEN CHOOSE id \in selectedNodes : TRUE ELSE Null
      ti == IF expands THEN FindId(nodes, target) ELSE 0
      clears == /\ ~expands
                /\ ~(includes(q, "insights") \/ includes(q, "explain"))
                /\ ~includes(q, "export")
                /\ includes(q, "clear")
                /\ confirmed
      calls == Len(matched) + (IF ti # 0 THEN 1 ELSE 0) + (IF clears THEN 1 ELSE 0)
  IN /\ Step("search", Len(matched), calls)
     /\ IF calls > 0 THEN SaveToHistory(calls) ELSE NoSave
     /\ nodes' = IF clears THEN <<>>
                 ELSE IF ti # 0
                 THEN MapSeq(nodes, LAMBDA n : IF n.id = target
                                               THEN WithData(n, nodes[ti], "processing")
                                               ELSE n)
                 ELSE SearchedNodes(matched)
     /\ edges' = IF clears THEN <<>> ELSE edges
     /\ maxZIndex' = IF matched # <<>> THEN maxZIndex + 1 ELSE maxZIndex
     /\ nextNodeId' = nextNodeId + Len(matched)
     /\ timers' = IF ti # 0
                  THEN Append(timers, [nodeId |-> target, node |-> nodes[ti], nodes |-> nodes,
                                       edges |-> edges, maxZIndex |-> maxZIndex])
                  ELSE timers
     /\ UNCHANGED <<selectedNodes, viewVars, gestureVars, contextMenu, armed, nextEdgeId>>
     /\ autoSaveEffect

\* ------------------------------------------------------------ AI processor
\* AiProcessorNode: its status, the pending analyzeTextLocally calls (each
\* with the target its closure captured), the pending 2-second reset timers,
\* and the number of calls started so far
FirstWhere(s, Test(_)) ==
  IF \E i \in 1..Len(s) : Test(s[i])
  THEN CHOOSE i \in 1..Len(s) : Test(s[i]) /\ \A j \in 1..(i - 1) : ~Test(s[j])
  ELSE 0

\* the image style chosen from the sentiment label
ImageStyle(label) ==
  IF label = "POSITIVE" THEN "vibrant,light,peaceful" ELSE "dark,cinematic,dramatic"

\* the button is rendered with disabled={status === 'loading'}
ButtonEnabled == processor.status # "loading"

\* onClick of the button: processWithAI up to its await
processWithAI ==
  /\ ButtonEnabled
  /\ clickPending = <<>>
  /\ LET source == FirstWhere(nodes, LAMBDA n : n.type = "intent" /\ n.content # "")
         target == FirstWhere(nodes, LAMBDA n : n.type = "hypothesis")
     IN /\ HandlerBase("processWithAI", IF source # 0 /\ target # 0 THEN nodes[target].id ELSE Null,
                       Null)
        /\ processor' = IF source # 0 /\ target # 0
                        THEN [processor EXCEPT
                                !.status = "loading",
                                !.calls = Append(@, [target |-> nodes[target].id]),
                                !.started = @ + 1]
                        ELSE processor
  /\ UNCHANGED <<graphVars, selectedNodes, viewVars, gestureVars, contextMenu, timers,
                 armed, clickPending, nextNodeId, nextEdgeId, pointerEvents>>
  /\ autoSaveEffect

\* analyzeTextLocally resolves: the rest of the try block
classifyResolved(k, label) ==
  /\ k \in 1..Len(processor.calls)
  /\ clickPending = <<>>
  /\ HandlerBase("classifyResolved", processor.calls[k].target, Null)
  /\ nodes' = MapSeq(nodes, LAMBDA n :
                 IF n.id = processor.calls[k].target
                 THEN [n EXCEPT !.imageUrl = ImageStyle(label)]
                 ELSE n)
  /\ processor' = [processor EXCEPT !.status = "done",
                                    !.calls = RemoveAt(@, k),
                                    !.resets = @ + 1]
  /\ UNCHANGED <<edges, history, historyIndex, saves, maxZIndex, selectedNodes, viewVars,
                 gestureVars, contextMenu, timers, armed, clickPending, nextNodeId,
                 nextEdgeId, pointerEvents>>
  /\ autoSaveEffect

\* analyzeTextLocally rejects: the catch block
classifyRejected(k) ==
  /\ k \in 1..Len(processor.calls)
  /\ clickPending = <<>>
  /\ HandlerBase("classifyRejected", processor.calls[k].target, Null)
  /\ processor' = [processor EXCEPT !.status = "idle", !.calls = RemoveAt(@, k)]
  /\ UNCHANGED <<graphVars, selectedNodes, viewVars, gestureVars, contextMenu, timers,
                 armed, clickPending, nextNodeId, nextEdgeId, pointerEvents>>
  /\ autoSaveEffect

\* the setTimeout(() => setStatus('idle'), 2000) callback
resetStatus ==
  /\ processor.resets > 0
  /\ clickPending = <<>>
  /\ HandlerBase("resetStatus", Null, Null)
  /\ processor' = [processor EXCEPT !.status = "idle", !.resets = @ - 1]
  /\ UNCHANGED <<graphVars, selectedNodes, viewVars, gestureVars, contextMenu, timers,
                 armed, clickPending, nextNodeId, nextEdgeId, pointerEvents>>
  /\ autoSaveEffect

\* --------------------------------------------------------- cognitive load
\* loads are counted in halves, so that 1.5 per edge is the integer 3
LoadScale == 2

calculateCognitiveLoadNodesOnly(nodeCount, edgeCount) == nodeCount * 2 * LoadScale

\* (nodeCount * 2) + (edgeCount * 1.5)
calculateCognitiveLoad(nodeCount, edgeCount) ==
  nodeCount * 2 * LoadScale + edgeCount * 3

getLoadColor(load) ==
  IF load < 20 * LoadScale THEN "text-green-400"
  ELSE IF load < 50 * LoadScale THEN "text-yellow-400"
  ELSE "text-red-400"

getLoadBg(load) ==
  IF load < 20 * LoadScale THEN "bg-green-500/20"
  ELSE IF load < 50 * LoadScale THEN "bg-yellow-500/20"
  ELSE "bg-red-500/20"

\* computed at every render
cogLoad == calculateCognitiveLoad(Len(nodes), Len(edges))

\* ------------------------------------------------------------ the machine
\* a screen point inside the welcome node and inside a freshly created node
Overlap == Pos(250, 250)

\* exploration bounds: history-saving commands, fresh node ids, stacking height
CanSave == saves < MaxSaves

CanCreate == CanSave /\ nextNodeId <= MaxNodeIds

CanRaise == maxZIndex < MaxZ

\* the graph store and the history manager: every command that snapshots,
\* undo and redo, and the connect gesture
Next ==
  \/ CanCreate /\ createNode("note")
  \/ \E i \in 1..Len(nodes) : openContextMenu(i)
  \/ CanSave /\ deleteNode
  \/ CanCreate /\ duplicateNode
  \/ selectAll
  \/ CanSave /\ deleteSelectedNodes
  \/ undo
  \/ redo
  \/ CanSave /\ clearAll
  \/ \E file \in ImportFiles : CanSave /\ handleImport(file)
  \/ CanSave /\ connectPointMouseDown(Overlap)
  \/ CanSave /\ handleMouseUp(Overlap, FALSE)

Spec == Init /\ [][Next]_vars

\* folders: drop-to-group, duplicate and extract, with undo and redo
NextFolder ==
  \/ CanCreate /\ createNode("note")
  \/ \E i \in 1..Len(nodes) : openContextMenu(i)
  \/ CanCreate /\ duplicateNode
  \/ \E f \in 1..Len(nodes) : \E c \in 1..Len(nodes[f].children) :
        CanRaise /\ extractFromFolder(f, c)
  \/ nodeMouseDown(Overlap, 0, FALSE, "header")
  \/ handleMouseUp(Overlap, FALSE)
  \/ undo
  \/ redo

SpecFolder == Init /\ [][NextFolder]_vars

\* expansion: the command, its timer callback, and what may run in between
NextExpand ==
  \/ CanCreate /\ createNode("note")
  \/ \E i \in 1..Len(nodes) : openContextMenu(i)
  \/ CanSave /\ expandIntent
  \/ selectAll
  \/ deselectAll
  \/ CanSave /\ expandSelected
  \/ CanRaise /\ bringToFront
  \/ \E k \in 1..Len(timers) : expandComplete(k)
  \/ CanSave /\ deleteNode
  \/ undo
  \/ redo

SpecExpand == Init /\ [][NextExpand]_vars

\* a command issued after an undo: three snapshots, then undo, then a drop
NextBranch ==
  \/ saves < MaxBranchSaves /\ nextNodeId <= MaxNodeIds /\ createNode("note")
  \/ saves < MaxBranchSaves /\ clearAll
  \/ nodeMouseDown(Overlap, 0, FALSE, "header")
  \/ handleMouseUp(Overlap, FALSE)
  \/ undo
  \/ redo

SpecBranch == Init /\ [][NextBranch]_vars

\* an exported graph holding one folder at the welcome node's position
FolderFile ==
  [ok |-> TRUE, nonNull |-> TRUE,
   nodes |-> <<MkNode(FolderIdBase, 100, 100, FolderWidth, FolderHeight, 3, "folder",
                      "New Group", "", "validated",
                      <<MkNode(ImportedId, 0, 0, 300, 250, 1, "intent", "Intent", "", "idle", <<>>),
                        MkNode(ImportedId + 1, 400, 0, 300, 250, 2, "note", "Note", "", "idle", <<>>)>>)>>,
   edges |-> <<>>]

\* an exported graph of an earlier session: two overlapping nodes and a third
\* one apart, with the zIndex values that session gave them
SessionFile ==
  [ok |-> TRUE, nonNull |-> TRUE,
   nodes |-> <<MkNode(ImportedId, 100, 100, 320, 240, 4, "intent", "Intent", "", "idle", <<>>),
               MkNode(ImportedId + 1, 200, 200, 280, 220, 5, "note", "Note", "", "idle", <<>>),
               MkNode(ImportedId + 2, 800, 800, 280, 220, 6, "note", "Note", "", "idle", <<>>)>>,
   edges |-> <<MkEdge(ImportedId, ImportedId + 1, ImportedId)>>]

\* a screen point inside a node extracted from a folder at the welcome position
Beside == Pos(500, 200)

\* folders that came from a file: duplicate, extract, and group again
NextRegroup ==
  \/ CanSave /\ handleImport(FolderFile)
  \/ \E i \in 1..Len(nodes) : openContextMenu(i)
  \/ CanCreate /\ duplicateNode
  \/ \E f \in 1..Len(nodes) : \E c \in 1..Len(nodes[f].children) :
        CanRaise /\ extractFromFolder(f, c)
  \/ \E p \in {Overlap, Beside} : nodeMouseDown(p, 0, FALSE, "header")
  \/ handleMouseUp(Overlap, FALSE)

SpecRegroup == Init /\ [][NextRegroup]_vars

\* stacking in a graph loaded from a file of an earlier session
NextSession ==
  \/ CanSave /\ handleImport(SessionFile)
  \/ CanCreate /\ createNode("note")
  \/ \E i \in 1..Len(nodes) : openContextMenu(i)
  \/ CanRaise /\ bringToFront
  \/ \E f \in 1..Len(nodes) : \E c \in 1..Len(nodes[f].children) :
        CanRaise /\ extractFromFolder(f, c)
  \/ nodeMouseDown(Overlap, 0, FALSE, "header")
  \/ handleMouseUp(Overlap, FALSE)

SpecSession == Init /\ [][NextSession]_vars

\* connections: the connect gesture and the edges an expansion adds
NextConnect ==
  \/ CanSave /\ handleImport(SessionFile)
  \/ CanCreate /\ createNode("note")
  \/ connectPointMouseDown(Overlap)
  \/ \E p \in Points : handleMouseUp(p, FALSE)
  \/ \E i \in 1..Len(nodes) : openContextMenu(i)
  \/ CanSave /\ expandIntent
  \/ \E k \in 1..Len(timers) : expandComplete(k)
  \/ undo

SpecConnect == Init /\ [][NextConnect]_vars

\* startup: what localStorage may hold under 'echo-os-nodes' and 'echo-os-edges'
SavedNodeEntries ==
  {AbsentEntry, GarbageEntry, EntryOf(NotAnArray), EntryOf(ArrayOf(<<>>)),
   EntryOf(ArrayOf(SessionFile.nodes))}

SavedEdgeEntries ==
  {AbsentEntry, GarbageEntry, EntryOf(NotAnArray), EntryOf(ArrayOf(<<>>)),
   EntryOf(ArrayOf(SessionFile.edges))}

InitStartup ==
  \E savedNodes \in SavedNodeEntries : \E savedEdges \in SavedEdgeEntries :
    InitWith(savedNodes, savedEdges)

\* the first commands of a session, on a canvas that rendered
NextStartup ==
  \/ Rendered /\ CanCreate /\ createNode("note")
  \/ \E i \in 1..Len(nodes) : Rendered /\ openContextMenu(i)
  \/ Rendered /\ CanSave /\ deleteNode
  \/ Rendered /\ undo
  \/ Rendered /\ redo

SpecStartup == InitStartup /\ [][NextStartup]_vars

\* an exported graph of n notes in a row and e connections from the first
\* note to the second
LoadFile(n, e) ==
  [ok |-> TRUE, nonNull |-> TRUE,
   nodes |-> [i \in 1..n |->
                MkNode(ImportedId + i - 1, 400 * i, 100, 320, 240, i, "note", "Note",
                       "", "idle", <<>>)],
   edges |-> [k \in 1..e |-> MkEdge(ImportedId + k - 1, ImportedId, ImportedId + 1)]]

\* graphs of every size up to the bounds; connections need two notes
LoadFiles ==
  {LoadFile(n, e) : n \in 0..MaxLoadNodes, e \in 0..MaxLoadEdges} \
    {LoadFile(n, e) : n \in 0..1, e \in 1..MaxLoadEdges}

\* cognitive load: a session that opens a graph of some size, then adds or
\* deletes a node
NextLoad ==
  \/ \E file \in LoadFiles : saves = 0 /\ handleImport(file)
  \/ CanCreate /\ createNode("note")
  \/ \E i \in 1..Min(Len(nodes), 2) : openContextMenu(i)
  \/ CanSave /\ deleteNode

SpecLoad == Init /\ [][NextLoad]_vars

\* an exported graph with connections: a -> b at the top level, and a -> c
\* where c was grouped into a folder after it was connected
ConflictFile ==
  [ok |-> TRUE, nonNull |-> TRUE,
   nodes |-> <<MkNode(ImportedId, 100, 100, 320, 240, 1, "note", "Note", "", "idle", <<>>),
               MkNode(ImportedId + 1, 600, 100, 320, 240, 2, "note", "Note", "", "idle", <<>>),
               MkNode(FolderIdBase, 100, 600, FolderWidth, FolderHeight, 3, "folder",
                      "New Group", "", "validated",
                      <<MkNode(ImportedId + 2, 0, 0, 300, 250, 1, "note", "Note",
                               "this looks expensive", "idle", <<>>)>>)>>,
   edges |-> <<MkEdge(ImportedId, ImportedId, ImportedId + 1),
               MkEdge(ImportedId + 1, ImportedId, ImportedId + 2)>>]

\* texts typed into nodes
Texts ==
  {"this is cheap", "this looks expensive", "Cheap and FAST", "slow but expensive",
   "I disagree", "we agree"}

\* exploration bound: each node is typed into once
CanType(i) == nodes[i].content \notin Texts

\* conflict detection: a session that opens a file, types into its nodes and
\* takes a node out of its folder
NextConflict ==
  \/ saves = 0 /\ handleImport(ConflictFile)
  \/ \E i \in 1..Len(nodes) : \E content \in Texts :
        CanType(i) /\ onContentChange(i, content)
  \/ \E f \in 1..Len(nodes) : \E c \in 1..Len(nodes[f].children) :
        CanRaise /\ extractFromFolder(f, c)

SpecConflict == Init /\ [][NextConflict]_vars

\* wheel events: zoom steps of every size and sign, scrolling by one step
ZoomDeltas == {-5000, -950, -100, 100, 950, 5000}

ScrollStep == 100

ScrollDeltas == {0 - ScrollStep, 0, ScrollStep}

Abs(v) == IF v < 0 THEN 0 - v ELSE v

\* exploration bound: the viewport stays within MaxScroll steps of the origin
CanScroll(deltaX, deltaY) ==
  /\ Abs(viewport.x - deltaX) <= MaxScroll * ScrollStep
  /\ Abs(viewport.y - deltaY) <= MaxScroll * ScrollStep

NextZoom ==
  \/ \E deltaX \in ScrollDeltas, deltaY \in ZoomDeltas : handleWheel(TRUE, deltaX, deltaY)
  \/ \E deltaX, deltaY \in ScrollDeltas :
        CanScroll(deltaX, deltaY) /\ handleWheel(FALSE, deltaX, deltaY)

SpecZoom == Init /\ [][NextZoom]_vars

\* resizing: pointer positions left of, inside and right of the first nodes
ResizePoints == {Pos(50, 50), Overlap, Pos(900, 900)}

\* zooming out by a half and in by one, once from the initial zoom
ResizeZoomDeltas == {500, -1000}

\* exploration bound: the graph is built and the zoom chosen before the
\* first pointer gesture
Building == pointerEvents = 0

NextResize ==
  \/ Building /\ CanCreate /\ createNode("voice")
  \/ \E i \in 1..Len(nodes) : Building /\ openContextMenu(i)
  \/ Building /\ CanCreate /\ duplicateNode
  \/ Building /\ CanSave /\ expandIntent
  \/ \E k \in 1..Len(timers) : expandComplete(k)
  \/ \E deltaY \in ResizeZoomDeltas :
        Building /\ zoom = ZoomUnit /\ handleWheel(TRUE, 0, deltaY)
  \/ \E p \in ResizePoints : resizeMouseDown(p)
  \/ nodeMouseDown(Overlap, 0, FALSE, "header")
  \/ \E p \in ResizePoints : handleMouseMove(p)
  \/ handleMouseUp(Overlap, FALSE)
  \/ \E f \in 1..Len(nodes) : \E c \in 1..Len(nodes[f].children) :
        CanRaise /\ extractFromFolder(f, c)

SpecResize == Init /\ [][NextResize]_vars

\* persistence: graph changes with the auto-save timer firing in between
NextPersist ==
  \/ CanCreate /\ createNode("note")
  \/ \E i \in 1..Len(nodes) : openContextMenu(i)
  \/ CanSave /\ deleteNode
  \/ CanSave /\ connectPointMouseDown(Overlap)
  \/ handleMouseUp(Overlap, FALSE)
  \/ undo
  \/ redo
  \/ autoSaveFire

SpecPersist == Init /\ [][NextPersist]_vars

\* the same with time passing: a pending save timer fires once its 1000 ms
\* have elapsed
SpecPersistFair == Init /\ [][NextPersist]_vars /\ WF_vars(autoSaveFire)

\* the interaction state machine: every pointer event of the canvas
NextGesture ==
  \/ Len(nodes) < MaxGestureNodes /\ createNode("note")
  \/ \E p \in Points, b \in Buttons, t \in CanvasTargets : canvasMouseDown(p, b, t)
  \/ \E p \in Points, b \in Buttons : zoneMouseDown(p, b)
  \/ \E p \in Points : resizeMouseDown(p)
  \/ \E p \in Points : connectPointMouseDown(p)
  \/ \E p \in Points, b \in Buttons, sh \in BOOLEAN, part \in NodeParts :
        nodeMouseDown(p, b, sh, part)
  \/ \E p \in Points : handleMouseMove(p)
  \/ \E p \in Points, onButton \in BOOLEAN : handleMouseUp(p, onButton)
  \/ \E p \in Points : handleMouseLeave(p)
  \/ connectButtonClick

SpecGesture == Init /\ [][NextGesture]_vars

\* selection and continuous gestures, with the pointer on the welcome node
\* alone (150, 150), on the overlap of the first two nodes, and away from both:
\* click, shift-click, Ctrl+A and Escape, with drags, a resize and a pan
NextSelect ==
  \/ Building /\ CanCreate /\ createNode("note")
  \/ Building /\ saves = 0 /\ openContextMenu(1)
  \/ Building /\ CanRaise /\ bringToFront
  \/ selectAll
  \/ deselectAll
  \/ \E p \in {Pos(150, 150), Overlap}, sh \in BOOLEAN : nodeMouseDown(p, 0, sh, "header")
  \/ canvasMouseDown(Pos(900, 900), 0, "canvas")
  \/ resizeMouseDown(Overlap)
  \/ \E p \in {Overlap, Pos(900, 900)} : handleMouseMove(p)
  \/ handleMouseUp(Overlap, FALSE)

SpecSelect == Init /\ [][NextSelect]_vars

\* expansions whose completion timers eventually fire: a pending setTimeout
\* callback runs once its 1500 ms have passed
NextFinish ==
  \/ saves < MaxBranchSaves /\ nextNodeId <= MaxNodeIds /\ createNode("note")
  \/ \E i \in 1..Len(nodes) : openContextMenu(i)
  \/ saves < MaxBranchSaves /\ expandIntent
  \/ \E k \in 1..Len(timers) : expandComplete(k)

TimersFire == \E k \in 1..Len(timers) : expandComplete(k)

SpecFinish == Init /\ [][NextFinish]_vars /\ WF_vars(TimersFire)

\* node identity: every command that adds a top-level node, from the default
\* graph, with room for one extraction after a folder has been duplicated
NextIds ==
  \/ CanCreate /\ createNode("note")
  \/ \E i \in 1..Len(nodes) : openContextMenu(i)
  \/ CanCreate /\ duplicateNode
  \/ \E f \in 1..Len(nodes) : \E c \in 1..Len(nodes[f].children) :
        maxZIndex <= MaxZ /\ extractFromFolder(f, c)
  \/ nodeMouseDown(Overlap, 0, FALSE, "header")
  \/ handleMouseUp(Overlap, FALSE)
  \/ CanSave /\ expandIntent
  \/ \E k \in 1..Len(timers) : expandComplete(k)
  \/ undo
  \/ redo

SpecIds == Init /\ [][NextIds]_vars

\* the search box: queries that create one node, two nodes, a node and an
\* expansion, that only expand, that clear, and one that names no command
SearchQueries ==
  {"Create note", "new note and code", "create intent, expand", "expand", "clear", "note"}

NextSearch ==
  \/ \E searchQuery \in SearchQueries, confirmed \in BOOLEAN :
        CanCreate /\ handleSearch(searchQuery, confirmed)
  \/ nodeMouseDown(Overlap, 0, FALSE, "content")
  \/ deselectAll
  \/ \E k \in 1..Len(timers) : expandComplete(k)
  \/ undo
  \/ redo

SpecSearch == Init /\ [][NextSearch]_vars

\* the AI processor beside a canvas with an intent and a hypothesis node:
\* button clicks, call completions and reset timers in any order
NextProcessor ==
  \/ CanCreate /\ createNode("hypothesis")
  \/ processor.started < MaxCalls /\ processWithAI
  \/ \E k \in 1..Len(processor.calls), label \in {"POSITIVE", "NEGATIVE"} :
        classifyResolved(k, label)
  \/ \E k \in 1..Len(processor.calls) : classifyRejected(k)
  \/ resetStatus

SpecProcessor == Init /\ [][NextProcessor]_vars

\* ------------------------------------------------------------- properties
Touches(e, ids) == e.from \in ids \/ e.to \in ids

\* C1: every edge's from and to is the id of a node in the top-level list
ReferentialIntegrity ==
  \A i \in 1..Len(edges) : edges[i].from \in Ids(nodes) /\ edges[i].to \in Ids(nodes)

\* C2: undo invoked immediately after a mutating command restores the nodes
\* and edges that held before the command
UndoRestoresPreState ==
  [][(CommandOf(lastOp) \in {"createNode", "deleteNode", "deleteSelectedNodes",
                             "duplicateNode", "connect", "clear", "import"}
      /\ lastOp'.op = "undo")
     => (nodes' = pre.nodes /\ edges' = pre.edges)]_vars

\* C3: undo and then redo, invoked immediately after a mutating command,
\* yield the nodes and edges the command produced
RedoRestoresPostState ==
  [][(lastOp.op = "undo" /\ lastOp.prev # "none" /\ lastOp'.op = "redo")
     => (nodes' = pre.nodes /\ edges' = pre.edges)]_vars

\* the gestures that are live
LiveGestures ==
  {g \in {"pan", "drag", "resize", "connect"} :
     \/ g = "pan" /\ isPanning
     \/ g = "drag" /\ draggedNode # Null
     \/ g = "resize" /\ resizingNode # Null
     \/ g = "connect" /\ connectingFrom # Null}

\* C4: at most one gesture (pan, drag, resize, connect) is active at a time
GestureMutualExclusion == Cardinality(LiveGestures) <= 1

\* C5: immediately after a pointer-up or pointer-leave handled by the canvas
\* the machine is idle: no panning, no dragged, resizing or connecting node
IdleAfterPointerUp ==
  lastOp.op \in {"mouseUp", "mouseLeave"} =>
    /\ ~isPanning
    /\ draggedNode = Null
    /\ resizingNode = Null
    /\ resizeStart = <<>>
    /\ connectingFrom = Null
    /\ connectingPos = <<>>

\* C5 witness: a pointer-up that finished a connection, adding an edge
PointerUpAfterConnect ==
  /\ lastOp.op = "mouseUp"
  /\ lastOp.a # Null
  /\ Len(edges) = Len(pre.edges) + 1
  /\ connectingFrom = Null

\* C6: every execution of a mutating command pushes exactly one history entry,
\* equal to the nodes and edges that held immediately before it
CommandPushesSnapshot ==
  [][CommandOf(lastOp') # "none"
     => /\ Len(history') = Len(Slice0(history, historyIndex + 1)) + 1
        /\ history'[Len(history')] = [nodes |-> nodes, edges |-> edges]]_vars

\* C7: a mutating command executed while a redo branch exists discards the
\* branch, so that afterwards the cursor is at the last history entry
RedoBranchDiscarded ==
  [][(CommandOf(lastOp') # "none" /\ historyIndex < Len(history) - 1)
     => historyIndex' = Len(history') - 1]_vars

\* C8: undo with the cursor at the first entry or with an empty history, and
\* redo with the cursor at the last entry, change neither nodes, edges, the
\* history nor the cursor
UndoRedoAtEndsNoOp ==
  [][(\/ lastOp'.op = "undo" /\ historyIndex <= 0
      \/ lastOp'.op = "redo" /\ historyIndex = Len(history) - 1)
     => /\ nodes' = nodes
        /\ edges' = edges
        /\ history' = history
        /\ historyIndex' = historyIndex]_vars

\* C8 witness: undo was invoked with the cursor at the first of several entries
UndoAtFirstEntry ==
  /\ lastOp.op = "undo"
  /\ pre.historyIndex = 0
  /\ Len(history) > 0
  /\ historyIndex = 0

\* the graph without the nodes in ids and without the edges touching them
DeletedExactly(ids) ==
  /\ nodes' = SelectSeq(nodes, LAMBDA n : n.id \notin ids)
  /\ edges' = SelectSeq(edges, LAMBDA e : ~Touches(e, ids))
  /\ \A i \in 1..Len(nodes') : nodes'[i].id \notin ids
  /\ \A i \in 1..Len(edges') : ~Touches(edges'[i], ids)

\* C9: deleteNode(id) of a top-level node removes that node and every edge
\* from or to it and nothing else; deleteSelectedNodes does so for the selection
DeleteCascade ==
  [][/\ (lastOp'.op = "deleteNode" /\ lastOp'.a \in Ids(nodes))
          => DeletedExactly({lastOp'.a})
     /\ lastOp'.op = "deleteSelectedNodes" => DeletedExactly(selectedNodes)]_vars

\* C9 witness: a deleted node took an edge that ended at it along
DeleteTookIncomingEdge ==
  /\ lastOp.op = "deleteNode"
  /\ lastOp.a \in Ids(pre.nodes)
  /\ \E i \in 1..Len(pre.edges) : pre.edges[i].to = lastOp.a
  /\ lastOp.a \notin Ids(nodes)
  /\ Len(edges) < Len(pre.edges)

\* C10: no node id is both in the top-level list and among a folder's children
NoDoubleCount ==
  \A i \in 1..Len(nodes) : \A f \in 1..Len(nodes) :
    nodes[i].id \notin Ids(nodes[f].children)

\* the last pointer-up dropped the dragged node on another node
Grouped(o) == o.op \in {"mouseUp", "mouseLeave"} /\ o.b # Null

\* C11: grouping source onto a folder appends source's record to the folder's
\* children and removes source from the top level; grouping onto any other
\* node appends a new folder at the target's position with children
\* <<target, source>> and removes both; either way the top level shrinks by one
GroupIntoFolderEffect ==
  [][Grouped(lastOp')
     => LET src == nodes[FindId(nodes, draggedNode)]
            tgt == nodes[FindId(nodes, lastOp'.b)]
        IN /\ Len(nodes') = Len(nodes) - 1
           /\ src.id \notin Ids(nodes')
           /\ IF tgt.type = "folder"
              THEN /\ FindId(nodes', tgt.id) # 0
                   /\ nodes'[FindId(nodes', tgt.id)].children = Append(tgt.children, src)
              ELSE /\ tgt.id \notin Ids(nodes')
                   /\ nodes'[Len(nodes')].type = "folder"
                   /\ nodes'[Len(nodes')].x = tgt.x
                   /\ nodes'[Len(nodes')].y = tgt.y
                   /\ nodes'[Len(nodes')].children = <<tgt, src>>]_vars

\* the data of a node record that grouping and extracting keep
SameContent(m, n) ==
  /\ m.id = n.id
  /\ m.type = n.type
  /\ m.label = n.label
  /\ m.content = n.content
  /\ m.status = n.status
  /\ m.children = n.children
  /\ m.w = n.w
  /\ m.h = n.h

\* the node appended last is stacked strictly above every other top-level node
LastOnTop(s) == \A i \in 1..(Len(s) - 1) : s[i].zIndex < s[Len(s)].zIndex

\* C12: grouping a and b and then extracting each child of the folder leaves
\* a and b at the top level with their ids and content, the folder without
\* them, and each extracted child stacked strictly above every other node
FolderRoundTrip ==
  [][/\ (Grouped(lastOp) /\ lastOp'.op = "extractFromFolder") => LastOnTop(nodes')
     /\ (/\ lastOp.op = "extractFromFolder"
         /\ lastOp.prev = "group"
         /\ lastOp'.op = "extractFromFolder"
         /\ lastOp'.a = lastOp.a
         /\ lastOp'.b # lastOp.b
         /\ FindId(pre.nodes, lastOp.a) # 0
         /\ Len(pre.nodes[FindId(pre.nodes, lastOp.a)].children) = 2)
        => LET kids == pre.nodes[FindId(pre.nodes, lastOp.a)].children
           IN /\ \A k \in 1..2 :
                   /\ FindId(nodes', kids[k].id) # 0
                   /\ SameContent(nodes'[FindId(nodes', kids[k].id)], kids[k])
              /\ nodes'[FindId(nodes', lastOp.a)].children = <<>>
              /\ LastOnTop(nodes')]_vars

\* the maximum zIndex observed across the top-level nodes, 0 if there are none
TopZ(s) ==
  IF s = <<>> THEN 0
  ELSE LET zs == {s[i].zIndex : i \in 1..Len(s)}
       IN CHOOSE z \in zs : \A y \in zs : y <= z

\* did the handler create a node or bring one to front?  It did if the node
\* it names was there (a new node for createNode and duplicateNode)
Raised(o, s) ==
  \/ o.op = "createNode"
  \/ o.op \in {"duplicateNode", "bringToFront"} /\ o.a \in Ids(s)

\* the node a raising handler raised: the new node is appended last
RaisedIndex(o, s) ==
  IF o.op = "bringToFront" THEN FindId(s, o.a) ELSE Len(s)

\* C13: every stacking-affecting operation raises the maximum zIndex observed
\* by exactly one (so that it equals their number), and the node created or
\* brought to front last is stacked strictly above every other top-level node
ZOrder ==
  [][/\ (\/ Raised(lastOp', nodes)
         \/ lastOp'.op = "extractFromFolder"
         \/ (Grouped(lastOp') /\ MakesNewFolder(nodes, draggedNode, lastOp'.b)))
          => TopZ(nodes') = TopZ(nodes) + 1
     /\ Raised(lastOp', nodes)
          => \A i \in 1..Len(nodes') :
               i # RaisedIndex(lastOp', nodes')
                 => nodes'[i].zIndex < nodes'[RaisedIndex(lastOp', nodes')].zIndex]_vars

\* C14: no handler or callback lowers the max-z counter, and bringToFront
\* gives the node maxZIndex + 1 and advances the counter to that value
MaxZMonotonic ==
  [][/\ maxZIndex' >= maxZIndex
     /\ (lastOp'.op = "bringToFront" /\ lastOp'.a \in Ids(nodes))
          => /\ maxZIndex' = maxZIndex + 1
             /\ nodes'[FindId(nodes', lastOp'.a)].zIndex = maxZIndex + 1]_vars

\* the edges of t that are not edges of s
NewEdges(s, t) == {t[i] : i \in 1..Len(t)} \ {s[i] : i \in 1..Len(s)}

\* C15: a pointer-up that finishes a connection from f on another node t
\* appends exactly one edge f -> t, unvalidated, whether or not such an edge
\* exists; any other pointer-up appends nothing; and no edge that a connection
\* or an expansion adds is a self-loop
ConnectAppendsOneEdge ==
  [][/\ lastOp'.op = "mouseUp"
          => IF connectingFrom # Null /\ lastOp'.a # Null /\ lastOp'.a # connectingFrom
             THEN /\ Len(edges') = Len(edges) + 1
                  /\ SubSeq(edges', 1, Len(edges)) = edges
                  /\ edges'[Len(edges')].from = connectingFrom
                  /\ edges'[Len(edges')].to = lastOp'.a
                  /\ edges'[Len(edges')].validated = FALSE
                  /\ \A i \in 1..Len(edges) : edges[i].id # edges'[Len(edges')].id
             ELSE edges' = edges
     /\ lastOp'.op \in {"mouseUp", "expandComplete"}
          => \A e \in NewEdges(edges, edges') : e.from # e.to]_vars

\* C15 witness: a connection was finished between two nodes that an edge
\* already joined, and both edges are in the list
ParallelEdgeAdded ==
  /\ lastOp.op = "mouseUp"
  /\ lastOp.a # Null
  /\ Len(edges) = Len(pre.edges) + 1
  /\ \E i \in 1..Len(pre.edges) :
       /\ pre.edges[i].from = edges[Len(edges)].from
       /\ pre.edges[i].to = edges[Len(edges)].to

\* C16: deleteNode, duplicateNode, bringToFront and extractFromFolder invoked
\* with the id of a node that is not in the list change neither nodes, edges,
\* the history, its cursor nor the max-z counter
InvalidIdNoOp ==
  [][(/\ lastOp'.op \in {"deleteNode", "duplicateNode", "bringToFront", "extractFromFolder"}
      /\ lastOp'.a \notin Ids(nodes))
     => /\ nodes' = nodes
        /\ edges' = edges
        /\ history' = history
        /\ historyIndex' = historyIndex
        /\ maxZIndex' = maxZIndex]_vars

\* C17: an import whose text fails to parse changes neither nodes, edges, the
\* history nor the cursor; one that parses pushes the current nodes and edges
\* and then replaces both by the file's collections, and an undo right after
\* it restores the graph that held before the import
ImportReplacesGraph ==
  [][/\ lastOp'.op = "import"
          => IF lastOp'.a = 0
             THEN /\ nodes' = nodes
                  /\ edges' = edges
                  /\ history' = history
                  /\ historyIndex' = historyIndex
             ELSE /\ history' = Slice0(history, historyIndex + 1)
                                  \o <<[nodes |-> nodes, edges |-> edges]>>
                  /\ historyIndex' = historyIndex + 1
                  /\ \E file \in ImportFiles :
                       file.ok /\ nodes' = file.nodes /\ edges' = file.edges
     /\ (lastOp.op = "import" /\ lastOp.a = 1 /\ lastOp'.op = "undo")
          => (nodes' = pre.nodes /\ edges' = pre.edges)]_vars

\* the persisted entry is a well-formed list
WellFormed(saved) == saved.present /\ saved.parses /\ saved.value.array

\* C18: at startup, an absent or malformed persisted node list gives the
\* default graph and an absent or malformed persisted edge list gives the
\* empty list; a well-formed entry is loaded as it is.  The startup value is
\* never anything but a list.
StartupFallback ==
  /\ startup.nodes = IF WellFormed(startup.savedNodes)
                     THEN startup.savedNodes.value ELSE ArrayOf(DefaultGraph)
  /\ startup.edges = IF WellFormed(startup.savedEdges)
                     THEN startup.savedEdges.value ELSE ArrayOf(<<>>)
  /\ Rendered

\* C19: the conflict set has no duplicate entries: each edge id occurs at most
\* once in conflictedEdges, also when several keyword groups flag the edge
NoDuplicateConflicts ==
  LET conflicts == conflictedEdges
  IN \A i, j \in 1..Len(conflicts) : i # j => conflicts[i] # conflicts[j]

\* position in the group of the first keyword the lower-cased text contains, 0 if none
FirstMatch(g, content) ==
  LET lowered == toLowerCase(content)
      hits == {k \in 1..Len(conflictKeywords[g]) : includes(lowered, conflictKeywords[g][k])}
  IN IF hits = {} THEN 0 ELSE CHOOSE k \in hits : \A m \in hits : k <= m

ContentOf(id) == nodes[FindId(nodes, id)].content

\* the rule as stated: both ends at the top level and some group matched on
\* both sides with different first keywords
Conflicting(edge) ==
  /\ edge.from \in Ids(nodes)
  /\ edge.to \in Ids(nodes)
  /\ \E g \in 1..Len(conflictKeywords) :
       LET first == FirstMatch(g, ContentOf(edge.from))
           second == FirstMatch(g, ContentOf(edge.to))
       IN first # 0 /\ second # 0 /\ first # second

\* the scenario: "this is cheap" -> "this looks expensive" is the one edge
\* between top-level nodes
CheapToExpensive ==
  /\ edges # <<>>
  /\ \A k \in 2..Len(edges) : edges[k].from \notin Ids(nodes) \/ edges[k].to \notin Ids(nodes)
  /\ edges[1].from \in Ids(nodes)
  /\ edges[1].to \in Ids(nodes)
  /\ ContentOf(edges[1].from) = "this is cheap"
  /\ ContentOf(edges[1].to) = "this looks expensive"

\* C20: an edge is in the conflict set exactly when both its ends are top-level
\* nodes and some keyword group has a match on both sides with different first
\* matched keywords; "this is cheap" -> "this looks expensive" joined by one
\* edge gives a conflict set holding that edge id once
ConflictRule ==
  LET conflicts == conflictedEdges
  IN /\ \A k \in 1..Len(edges) :
          (\E i \in 1..Len(conflicts) : conflicts[i] = edges[k].id) <=> Conflicting(edges[k])
     /\ CheapToExpensive => conflicts = <<edges[1].id>>

\* the scenario happened: the one edge cheap -> expensive is flagged
CheapToExpensiveFlagged ==
  CheapToExpensive /\ conflictedEdges = <<edges[1].id>>

\* would detectConflicts flag an edge from u to v?
Flagged(u, v) == EdgePushes(nodes, MkEdge(Null, u, v)) # <<>>

\* C21: conflict detection is symmetric: for any two nodes, an edge between
\* them is flagged exactly when the edge in the other direction, with the
\* same contents, is flagged
ConflictSymmetry ==
  \A i, j \in 1..Len(nodes) :
    i < j => (Flagged(nodes[i].id, nodes[j].id) <=> Flagged(nodes[j].id, nodes[i].id))

\* an edge of the graph is flagged, and so is its reverse
FlaggedBothWays ==
  \E k \in 1..Len(edges) :
    /\ \E i \in 1..Len(conflictedEdges) : conflictedEdges[i] = edges[k].id
    /\ Flagged(edges[k].to, edges[k].from)

\* the class shown for a load given in halves
LoadClass(load) ==
  IF getLoadColor(load) = "text-green-400" /\ getLoadBg(load) = "bg-green-500/20"
  THEN "optimal"
  ELSE IF getLoadColor(load) = "text-yellow-400" /\ getLoadBg(load) = "bg-yellow-500/20"
  THEN "moderate"
  ELSE IF getLoadColor(load) = "text-red-400" /\ getLoadBg(load) = "bg-red-500/20"
  THEN "high"
  ELSE "mixed"

\* the load is 2 per top-level node plus 1.5 per edge, classified by 20 and 50
LoadExact ==
  /\ cogLoad = 4 * Len(nodes) + 3 * Len(edges)
  /\ LoadClass(cogLoad) = IF cogLoad < 40 THEN "optimal"
                          ELSE IF cogLoad < 100 THEN "moderate" ELSE "high"

\* C22: in every state the cognitive load is exactly 2 * top-level nodes +
\* 1.5 * edges and is classified optimal below 20, moderate from 20 to below
\* 50 and high from 50; a step that removes no node and no edge never
\* decreases it
CognitiveLoadLaw ==
  /\ []LoadExact
  /\ [][(Len(nodes') >= Len(nodes) /\ Len(edges') >= Len(edges)) => cogLoad' >= cogLoad]_vars

\* a node was added to a graph with edges and the load reached 50: high
LoadReachedHigh ==
  /\ lastOp.op = "createNode"
  /\ edges # <<>>
  /\ cogLoad >= 100
  /\ calculateCognitiveLoad(Len(pre.nodes), Len(pre.edges)) < 100
  /\ LoadClass(cogLoad) = "high"

\* C24: the zoom stays within [0.1, 3.0] whatever zoom events arrive, and a
\* wheel event without ctrl changes nothing but the viewport offset
ZoomClamped ==
  /\ [](zoom >= ZoomMin /\ zoom <= ZoomMax)
  /\ [][(lastOp'.op = "wheel" /\ lastOp'.a = 0) =>
          UNCHANGED <<nodes, edges, history, historyIndex, maxZIndex, selectedNodes, zoom,
                      gestureVars, contextMenu, timers, armed, clickPending,
                      nextNodeId, nextEdgeId>>]_vars

\* after scrolling, a zoom event pushed the zoom against the lower limit
ZoomAtLimit ==
  /\ lastOp.op = "wheel"
  /\ lastOp.a = 1
  /\ zoom = ZoomMin
  /\ viewport # Pos(0, 0)

\* a resize is in progress on a node of the top-level list
Resizing == resizingNode # Null /\ resizeStart # <<>> /\ FindId(nodes, resizingNode) # 0

\* the size the claim gives for a pointer at p
ClampedWidth(p) ==
  Max(200, resizeStart[1].w + ((p.x - resizeStart[1].x) * ZoomUnit) \div zoom)

ClampedHeight(p) ==
  Max(150, resizeStart[1].h + ((p.y - resizeStart[1].y) * ZoomUnit) \div zoom)

\* C23: every resize step sets the node's size to (max(200, startWidth +
\* dx/zoom), max(150, startHeight + dy/zoom)) for the pointer displacement
\* (dx, dy) since the resize began, and every top-level node is at least 200
\* wide and 150 high in every state
SizeMinimum ==
  /\ [](\A i \in 1..Len(nodes) : nodes[i].w >= 200 /\ nodes[i].h >= 150)
  /\ [][\A p \in ResizePoints :
          (Resizing /\ handleMouseMove(p)) =>
            \A i \in 1..Len(nodes) :
              nodes[i].id = resizingNode =>
                /\ nodes'[i].w = ClampedWidth(p)
                /\ nodes'[i].h = ClampedHeight(p)]_vars

\* a resize that tried to shrink a node below the minimum was clamped to it
ShrunkToMinimum ==
  /\ lastOp.op = "mouseMove"
  /\ Resizing
  /\ zoom # ZoomUnit
  /\ nodes[FindId(nodes, resizingNode)].h = 150
  /\ resizeStart[1].h > 150

\* the status of the top-level node with this id in the node list s
StatusOf(s, id) == s[FindId(s, id)].status

\* C25: while an expansion is pending its node has status processing, and
\* when the completion runs the node's status becomes validated
ExpansionProtocol ==
  /\ [](\A k \in 1..Len(timers) :
          timers[k].nodeId \in Ids(nodes) => StatusOf(nodes, timers[k].nodeId) = "processing")
  /\ [][lastOp'.op = "expandComplete" =>
          (lastOp'.a \in Ids(nodes') /\ StatusOf(nodes', lastOp'.a) = "validated")]_vars

\* C26: a completion that arrives after its node left the top-level list
\* (deleted, or absorbed into a folder) applies no result: the node is not put
\* back and no node or edge is added
CompletionGuardedByExistence ==
  [][(lastOp'.op = "expandComplete" /\ lastOp'.a \notin Ids(nodes)) =>
       (nodes' = nodes /\ edges' = edges)]_vars

\* the elements of a sequence
Range(s) == {s[i] : i \in 1..Len(s)}

\* C27: a completion overwrites only the status and generated content of its
\* node: every other node and every edge present before it arrives is still
\* present afterwards, and its node keeps label, position and size
CompletionMergesNarrowly ==
  [][lastOp'.op = "expandComplete" =>
       /\ \A i \in 1..Len(nodes) : nodes[i].id # lastOp'.a => nodes[i] \in Range(nodes')
       /\ Range(edges) \subseteq Range(edges')
       /\ \A i \in 1..Len(nodes) : nodes[i].id = lastOp'.a =>
            \E j \in 1..Len(nodes') :
              /\ nodes'[j].id = nodes[i].id
              /\ nodes'[j].label = nodes[i].label
              /\ nodes'[j].x = nodes[i].x /\ nodes'[j].y = nodes[i].y
              /\ nodes'[j].w = nodes[i].w /\ nodes'[j].h = nodes[i].h]_vars

\* what a write of the current graph leaves in localStorage
StoredGraph == [nodes |-> EntryOf(ArrayOf(nodes)), edges |-> EntryOf(ArrayOf(edges))]

\* C28: at most one save timer is pending; every graph change cancels it and
\* starts one for the new state; a write stores the nodes and the edges of
\* the state current when the timer fires, the last of its debounce window
DebouncedPersistence ==
  /\ [](Len(saveTimers) <= 1)
  /\ [][(nodes' # nodes \/ edges' # edges) =>
          saveTimers' = <<[nodes |-> nodes', edges |-> edges']>>]_vars
  /\ [][lastOp'.op = "autoSave" => (localStorage' = StoredGraph /\ saveTimers' = <<>>)]_vars

\* a write after a window of two changes, ending with a connection
WroteAfterConnect ==
  /\ lastOp.op = "autoSave"
  /\ lastOp.prev = "connect"
  /\ saves = 2
  /\ pre.nodes # DefaultGraph
  /\ localStorage = StoredGraph
  /\ Len(edges) = 1

\* a drag is in progress on a node of the top-level list
Dragging == draggedNode # Null /\ FindId(nodes, draggedNode) # 0

\* is the pointer inside the on-screen box of a top-level node other than the
\* dragged one?
OverOtherNode(p) ==
  \E i \in 1..Len(nodes) : nodes[i].id # draggedNode /\ Hit(nodes[i], p)

\* C29: a pointer-up that ends a drag inside the on-screen box of another
\* top-level node groups the dragged node (it is no longer a top-level node),
\* and one over no other node's box groups nothing, at any viewport offset and zoom
DropToGroup ==
  [][\A p \in ResizePoints :
       (Dragging /\ handleMouseUp(p, FALSE)) =>
         IF OverOtherNode(p) THEN draggedNode \notin Ids(nodes') ELSE nodes' = nodes]_vars

\* the screen point the drag began at: the captured offset plus the node's
\* position at that moment
PressPoint == Pos(dragOffset.x + nodes[FindId(nodes, draggedNode)].x,
                  dragOffset.y + nodes[FindId(nodes, draggedNode)].y)

\* C30: the first pointer-move of a drag puts the node at its start position
\* plus the pointer displacement since the press divided by the zoom, so a
\* move with the pointer still at the press point leaves the node where it
\* was, at any viewport offset and zoom
NoJumpOnDragStart ==
  [][\A p \in ResizePoints :
       (lastOp.op = "nodeMouseDown" /\ Dragging /\ handleMouseMove(p)) =>
         \A i \in 1..Len(nodes) :
           nodes[i].id = draggedNode =>
             /\ nodes'[i].x = nodes[i].x + ((p.x - PressPoint.x) * ZoomUnit) \div zoom
             /\ nodes'[i].y = nodes[i].y + ((p.y - PressPoint.y) * ZoomUnit) \div zoom]_vars

\* a drag of several nodes: the dragged node is one of two or more selected
MultiDragging == draggedNode \in selectedNodes /\ Cardinality(selectedNodes) > 1

\* C31: a pointer-move while more than one node is selected and the dragged
\* node is among them moves every selected node by the delta of the dragged
\* node and leaves the position of every unselected node unchanged
CoupledDrag ==
  (lastOp.op = "mouseMove" /\ MultiDragging)
    => /\ Len(nodes) = Len(pre.nodes)
       /\ LET d == FindId(pre.nodes, draggedNode)
              dx == IF d = 0 THEN 0 ELSE nodes[d].x - pre.nodes[d].x
              dy == IF d = 0 THEN 0 ELSE nodes[d].y - pre.nodes[d].y
          IN \A i \in 1..Len(nodes) :
               /\ nodes[i].id = pre.nodes[i].id
               /\ IF nodes[i].id \in selectedNodes
                  THEN /\ nodes[i].x = pre.nodes[i].x + dx
                       /\ nodes[i].y = pre.nodes[i].y + dy
                  ELSE /\ nodes[i].x = pre.nodes[i].x
                       /\ nodes[i].y = pre.nodes[i].y

MultiDragMoved ==
  /\ lastOp.op = "mouseMove"
  /\ MultiDragging
  /\ Len(nodes) = Len(pre.nodes)
  /\ \E i \in 1..Len(nodes) :
       /\ nodes[i].id \in selectedNodes \ {draggedNode}
       /\ nodes[i].x # pre.nodes[i].x
  /\ \E j \in 1..Len(nodes) : nodes[j].id \notin selectedNodes

\* is the node with this id stacked strictly above every other top-level node?
StrictlyOnTop(s, id) ==
  /\ FindId(s, id) # 0
  /\ \A i \in 1..Len(s) : s[i].id # id => s[i].zIndex < s[FindId(s, id)].zIndex

\* the pointer positions and node surfaces of a click
ClickPoints == {Pos(150, 150), Overlap, Pos(900, 900)}

\* C32: a shift-click on n toggles n in the selection and leaves the other
\* members alone; a plain click on n makes the selection {n} and stacks n
\* strictly above every other node; Escape empties the selection; select-all
\* makes it the set of the top-level node ids
SelectionRules ==
  [][/\ \A p \in ClickPoints, part \in {"header", "content"} :
          /\ (nodeMouseDown(p, 0, TRUE, part) /\ TopNodeAt(p) # 0)
               => LET n == nodes[TopNodeAt(p)].id
                  IN /\ (n \in selectedNodes') # (n \in selectedNodes)
                     /\ selectedNodes' \ {n} = selectedNodes \ {n}
          /\ (nodeMouseDown(p, 0, FALSE, part) /\ TopNodeAt(p) # 0)
               => LET n == nodes[TopNodeAt(p)].id
                  IN /\ selectedNodes' = {n}
                     /\ StrictlyOnTop(nodes', n)
     /\ deselectAll => selectedNodes' = {}
     /\ selectAll => selectedNodes' = Ids(nodes')]_vars

\* C33: a pointer-move (during a node drag, a resize or a pan) and
\* bringToFront leave the history contents and the history cursor unchanged
ContinuousGesturesSkipHistory ==
  [][lastOp'.op \in {"mouseMove", "bringToFront"}
       => /\ history' = history
          /\ historyIndex' = historyIndex]_vars

DraggedWithHistory ==
  /\ lastOp.op = "mouseMove"
  /\ draggedNode # Null
  /\ nodes # pre.nodes
  /\ history # <<>>
  /\ historyIndex = Len(history) - 1

\* the ids of the nodes an expansion can be started on
ExpandableIds == WelcomeId..MaxNodeIds

\* is the node with this id at the top level with this status?
HasStatus(id, status) ==
  FindId(nodes, id) # 0 /\ nodes[FindId(nodes, id)].status = status

\* C34: with the completion timers firing, every node that enters status
\* processing eventually has status validated, and when no expansion is
\* pending no node has status processing
ExpansionsFinish ==
  /\ \A id \in ExpandableIds :
        HasStatus(id, "processing") ~> HasStatus(id, "validated")
  /\ [](timers = <<>> => \A i \in 1..Len(nodes) : nodes[i].status # "processing")

\* C35: when an expansion started on an existing node n completes with no
\* operation in between, the node list is the previous one followed by two
\* generated nodes, the edge list the previous one followed by two unvalidated
\* edges from n to them, and the max-z counter has advanced by 2 and is at
\* least the zIndex of both generated nodes
ExpansionResult ==
  [][(/\ lastOp.op = "expandIntent"
      /\ FindId(pre.nodes, lastOp.a) # 0
      /\ Len(timers) = 1
      /\ lastOp'.op = "expandComplete")
       => /\ Len(nodes') = Len(nodes) + 2
          /\ \A i \in 1..Len(nodes) : nodes'[i].id = nodes[i].id
          /\ Len(edges') = Len(edges) + 2
          /\ SubSeq(edges', 1, Len(edges)) = edges
          /\ \A k \in 1..2 :
               /\ edges'[Len(edges) + k].from = lastOp.a
               /\ edges'[Len(edges) + k].to = nodes'[Len(nodes) + k].id
               /\ ~edges'[Len(edges) + k].validated
               /\ nodes'[Len(nodes) + k].zIndex <= maxZIndex'
          /\ maxZIndex' = maxZIndex + 2]_vars

\* C36: the ids of the top-level nodes are pairwise distinct
UniqueNodeIds ==
  \A i, j \in 1..Len(nodes) : i # j => nodes[i].id # nodes[j].id

\* C37: the history cursor is between -1 and the last history entry, and
\* every create command issued by one search adds its node to the node list
HistoryCursorInBounds ==
  /\ [](-1 <= historyIndex /\ historyIndex <= Len(history) - 1)
  /\ [][(lastOp'.op = "search" /\ lastOp'.b = lastOp'.a)
          => Len(nodes') = Len(nodes) + lastOp'.a]_vars

\* C38: a pointer-down on a node's draggable surface followed by a pointer-up
\* at the same point, with no pointer-move in between, leaves the set of
\* top-level node ids and the children of every folder unchanged
ClickNeverGroups ==
  [][\A p \in Points :
       (/\ lastOp.op = "nodeMouseDown"
        /\ Dragging
        /\ p = PressPoint
        /\ handleMouseUp(p, FALSE))
         => /\ Ids(nodes') = Ids(nodes)
            /\ \A i \in 1..Len(nodes), j \in 1..Len(nodes') :
                 nodes'[j].id = nodes[i].id => nodes'[j].children = nodes[i].children]_vars

\* C39: if the graph stops changing, the persisted nodes and edges eventually
\* equal the current ones, and once equal they stay equal until the graph
\* changes again
EventuallyPersisted ==
  /\ (<>[][nodes' = nodes /\ edges' = edges]_vars) => <>[](localStorage = StoredGraph)
  /\ [][(localStorage = StoredGraph /\ nodes' = nodes /\ edges' = edges)
          => localStorage' = localStorage]_vars

PersistedAfterUndo ==
  /\ lastOp.op = "autoSave"
  /\ pre.historyIndex < Len(history) - 1
  /\ saveTimers = <<>>
  /\ localStorage = StoredGraph
  /\ nodes # DefaultGraph

\* C40: a classification starts only while the processor's status is not
\* loading, the status is loading whenever a classification call is pending,
\* and at most one call of the processor is pending at any time
OneClassificationInFlight ==
  /\ [](Len(processor.calls) <= 1)
  /\ [](processor.calls # <<>> => processor.status = "loading")
  /\ [][processor'.started # processor.started => processor.status # "loading"]_vars

====
